---- MODULE Spec2Model ----
(***************************************************************************)
(* The key-value transaction indexer of state/txindex/kv/kv.go: the key    *)
(* codec, the write path (Index, AddBatch), Get, and Search with its query *)
(* planner, the match / matchRange evaluators and the materializer.        *)
(*                                                                         *)
(* Byte strings ([]byte and string) are sequences of numbers 0..255, so    *)
(* that the store's unsigned-byte key order, prefixes and the parsing of   *)
(* keys are computed as the code computes them.                            *)
(***************************************************************************)
EXTENDS Integers, Sequences, FiniteSets, TLC

VARIABLES
    store,      \* txi.store: the ordered KV store, a function key -> value
    eventSeq,   \* txi.eventSeq
    writes,     \* number of Index / AddBatch calls made so far (bounded)
    last,       \* the last completed call of the public API and what it returned
    hist,       \* per hash, the most recent Index / AddBatch call on it (history)
    sr          \* a Search in progress, one iterator step at a time

vars == <<store, eventSeq, writes, last, hist, sr>>

----------------------------------------------------------------------------
(* Bounds of the model.                                                    *)

\* Index / AddBatch calls in one behaviour.
MaxWrites == 2

----------------------------------------------------------------------------
(* Byte strings.                                                           *)

\* const tagKeySeparator = "/"
tagKeySeparator == <<47>>

\* const eventSeqSeparator = "$es$"
eventSeqSeparator == <<36, 101, 115, 36>>

\* types.TxHeightKey = "tx.height"
TxHeightKey == <<116, 120, 46, 104, 101, 105, 103, 104, 116>>

\* types.TxHashKey = "tx.hash"
TxHashKey == <<116, 120, 46, 104, 97, 115, 104>>

\* types.MatchEventKey = "match.events"
MatchEventKey == <<109, 97, 116, 99, 104, 46, 101, 118, 101, 110, 116, 115>>

SetMin(S) == CHOOSE x \in S : \A y \in S : x <= y

\* bytes.Compare(a, b) < 0 for a and b equal before position i.
RECURSIVE BytesLessFrom(_, _, _)
BytesLessFrom(a, b, i) ==
    IF i > Len(a) THEN i <= Len(b)
    ELSE IF i > Len(b) THEN FALSE
    ELSE IF a[i] = b[i] THEN BytesLessFrom(a, b, i + 1)
    ELSE a[i] < b[i]

\* bytes.Compare(a, b) < 0: the store orders its keys as unsigned bytes.
BytesLess(a, b) == BytesLessFrom(a, b, 1)

\* bytes.HasPrefix / strings.HasPrefix
HasPrefix(s, p) == Len(p) <= Len(s) /\ \A i \in 1..Len(p) : s[i] = p[i]

\* strings.HasSuffix
HasSuffix(s, p) ==
    Len(p) <= Len(s) /\ \A i \in 1..Len(p) : s[Len(s) - Len(p) + i] = p[i]

\* strings.TrimPrefix
TrimPrefix(s, p) == IF HasPrefix(s, p) THEN SubSeq(s, Len(p) + 1, Len(s)) ELSE s

\* strings.TrimSuffix
TrimSuffix(s, p) == IF HasSuffix(s, p) THEN SubSeq(s, 1, Len(s) - Len(p)) ELSE s

\* The positions at which sub occurs in s.
Occurrences(s, sub) ==
    {i \in 1..(Len(s) - Len(sub) + 1) : \A j \in 1..Len(sub) : s[i + j - 1] = sub[j]}

\* strings.Contains
StringsContains(s, sub) == sub = <<>> \/ Occurrences(s, sub) # {}

\* strings.Count(s, sep) for a one-byte separator
StringsCount(s, sep) == Cardinality(Occurrences(s, sep))

\* strings.SplitN(s, sep, -1) for a one-byte separator: the fields between
\* the occurrences of sep, the i-th field ending before the i-th occurrence.
SplitAll(s, sep) ==
    LET occ == Occurrences(s, sep)
        n == Cardinality(occ)
        at == [i \in 1..n |-> CHOOSE p \in occ : Cardinality({q \in occ : q < p}) = i - 1]
    IN  [i \in 1..(n + 1) |->
            SubSeq(s, IF i = 1 THEN 1 ELSE at[i - 1] + 1,
                      IF i = n + 1 THEN Len(s) ELSE at[i] - 1)]

\* strconv.FormatInt(n, 10) and fmt's %d, for n >= 0
RECURSIVE FormatUint(_)
FormatUint(n) ==
    IF n < 10 THEN <<48 + n>>
    ELSE Append(FormatUint(n \div 10), 48 + (n % 10))

\* strconv.FormatInt(n, 10) and fmt's %d
FormatInt(n) == IF n < 0 THEN <<45>> \o FormatUint(0 - n) ELSE FormatUint(n)

RECURSIVE DigitsValue(_)
DigitsValue(s) ==
    IF s = <<>> THEN 0
    ELSE DigitsValue(SubSeq(s, 1, Len(s) - 1)) * 10 + (s[Len(s)] - 48)

\* strconv.ParseInt(s, 10, 64): an optional sign, then decimal digits only.
\* Digit strings of the model have at most 9 digits, so the value is in range.
ParseInt(s) ==
    LET signed == s # <<>> /\ s[1] \in {43, 45}
        body == IF signed THEN Tail(s) ELSE s
        bad == body = <<>> \/ Len(body) > 9
                  \/ \E i \in 1..Len(body) : body[i] < 48 \/ body[i] > 57
    IN  IF bad THEN [ok |-> FALSE, v |-> 0]
        ELSE [ok |-> TRUE,
              v |-> IF s[1] = 45 THEN 0 - DigitsValue(body) ELSE DigitsValue(body)]

\* []byte{byte(h >> 24), byte(h >> 16), byte(h >> 8), byte(h)} for h >= 0
BE4(h) ==
    <<(h \div 16777216) % 256, (h \div 65536) % 256, (h \div 256) % 256, h % 256>>

----------------------------------------------------------------------------
(* Keys.                                                                   *)

\* isTagKey: at least 3 separators.
isTagKey(key) == StringsCount(key, tagKeySeparator) >= 3

\* extractHeightFromKey: the second-to-last field, parsed as a decimal.
\* (A key with fewer than two fields makes the Go code panic: ok is FALSE.)
extractHeightFromKey(key) ==
    LET parts == SplitAll(key, tagKeySeparator)
    IN  IF Len(parts) < 2 THEN [ok |-> FALSE, v |-> 0]
        ELSE ParseInt(parts[Len(parts) - 1])

\* extractValueFromKey: the key without its first field and its last two.
extractValueFromKey(key) ==
    LET parts == SplitAll(key, tagKeySeparator)
        partsLen == Len(parts)
        value == TrimPrefix(key, parts[1] \o tagKeySeparator)
        suffix == tagKeySeparator \o parts[partsLen - 1]
                      \o tagKeySeparator \o parts[partsLen]
    IN  TrimSuffix(value, suffix)

\* extractEventSeqFromKey: what follows "$es$" in the last field, else "0".
extractEventSeqFromKey(key) ==
    LET parts == SplitAll(key, tagKeySeparator)
        lastEl == parts[Len(parts)]
        occ == Occurrences(lastEl, eventSeqSeparator)
    IN  IF occ # {}
        THEN SubSeq(lastEl, SetMin(occ) + Len(eventSeqSeparator), Len(lastEl))
        ELSE <<48>>

\* keyForEvent: "%s/%s/%d/%d$es$<eventSeq>"
keyForEvent(key, value, result, seq) ==
    key \o tagKeySeparator \o value \o tagKeySeparator
        \o FormatInt(result.Height) \o tagKeySeparator \o FormatInt(result.Index)
        \o eventSeqSeparator \o FormatInt(seq)

\* keyForHeight: "tx.height" "/" BE4(height) "/%d/%d$es$0"
keyForHeight(result) ==
    TxHeightKey \o tagKeySeparator \o BE4(result.Height)
        \o tagKeySeparator \o FormatInt(result.Height)
        \o tagKeySeparator \o FormatInt(result.Index)
        \o eventSeqSeparator \o <<48>>

----------------------------------------------------------------------------
(* The data model: TxResult, its events, and the stored values.            *)

\* abci.CodeTypeOK
CodeTypeOK == 0

\* types.Tx(tx).Hash(): the SHA-256 digest of the payload, abstracted as an
\* injective function whose values never start like an index key.
Hash(tx) == <<255>> \o tx

\* ResponseDeliverTx.IsOK
IsOK(result) == result.Result.Code = CodeTypeOK

\* The value the index keys hold: the raw hash.
HashValue(hash) == [bz |-> hash]

\* proto.Marshal(result): the wire message, field by field.
Marshal(result) ==
    [pb |-> <<result.Height, result.Index, result.Tx,
              <<result.Result.Code, result.Result.Events>>>>]

\* proto.Unmarshal(rawBytes, txResult): fails on bytes that are no TxResult.
Unmarshal(rawBytes) ==
    IF "pb" \in DOMAIN rawBytes
    THEN [ok |-> TRUE,
          txResult |-> [Height |-> rawBytes.pb[1], Index |-> rawBytes.pb[2],
                        Tx |-> rawBytes.pb[3],
                        Result |-> [Code |-> rawBytes.pb[4][1],
                                    Events |-> rawBytes.pb[4][2]]]]
    ELSE [ok |-> FALSE, txResult |-> <<>>]

\* TxIndex.Get: res is <<>> for nil and <<txResult>> otherwise.
Get(db, hash) ==
    IF Len(hash) = 0 THEN [res |-> <<>>, err |-> "ErrorEmptyHash"]
    ELSE IF hash \notin DOMAIN db THEN [res |-> <<>>, err |-> "nil"]
    ELSE IF ~Unmarshal(db[hash]).ok
         THEN [res |-> <<>>, err |-> "error reading TxResult"]
    ELSE [res |-> <<Unmarshal(db[hash]).txResult>>, err |-> "nil"]

----------------------------------------------------------------------------
(* The write path.                                                         *)

\* A commit that is not atomic: only the first Set of the batch is in the
\* store when the others look at it.
WriteSyncPartial(db, b) ==
    IF b = <<>> THEN db
    ELSE [x \in DOMAIN db \cup {Head(b)[1]} |->
             IF x = Head(b)[1] THEN Head(b)[2] ELSE db[x]]

\* dbm.Batch.WriteSync: the batch's Sets, applied in order, in one commit.
RECURSIVE WriteSync(_, _)
WriteSync(db, b) ==
    IF b = <<>> THEN db
    ELSE LET k == Head(b)[1]
             v == Head(b)[2]
         IN  WriteSync([x \in DOMAIN db \cup {k} |-> IF x = k THEN v ELSE db[x]],
                       Tail(b))

\* indexEvents with an inner loop that stops after the first attribute.
indexFirstAttribute(attrs, type, result, hash, seq) ==
    IF attrs = <<>> \/ Len(attrs[1].Key) = 0 \/ ~attrs[1].Index THEN <<>>
    ELSE <<<<keyForEvent(type \o <<46>> \o attrs[1].Key, attrs[1].Value, result, seq),
             HashValue(hash)>>>>

\* indexEvents with an inner loop that does not read attr.GetIndex().
RECURSIVE indexEveryAttribute(_, _, _, _, _)
indexEveryAttribute(attrs, type, result, hash, seq) ==
    IF attrs = <<>> THEN <<>>
    ELSE (IF Len(Head(attrs).Key) = 0 THEN <<>>
          ELSE <<<<keyForEvent(type \o <<46>> \o Head(attrs).Key,
                               Head(attrs).Value, result, seq),
                   HashValue(hash)>>>>)
             \o indexEveryAttribute(Tail(attrs), type, result, hash, seq)

\* indexEvents, the inner loop: one Set per attribute with a non-empty key
\* and index = true.
RECURSIVE indexAttributes(_, _, _, _, _)
indexAttributes(attrs, type, result, hash, seq) ==
    IF attrs = <<>> THEN <<>>
    ELSE LET attr == Head(attrs)
             compositeTag == type \o <<46>> \o attr.Key
             sets == IF Len(attr.Key) = 0 THEN <<>>
                     ELSE IF attr.Index
                          THEN <<<<keyForEvent(compositeTag, attr.Value, result, seq),
                                   HashValue(hash)>>>>
                          ELSE <<>>
         IN  sets \o indexAttributes(Tail(attrs), type, result, hash, seq)

\* indexEvents with line 159 after the test of the type: eventSeq advances
\* for the events with a type only.
RECURSIVE indexTypedEventList(_, _, _, _)
indexTypedEventList(events, result, hash, seq) ==
    IF events = <<>> THEN [sets |-> <<>>, eventSeq |-> seq]
    ELSE IF Len(Head(events).Type) = 0
    THEN indexTypedEventList(Tail(events), result, hash, seq)
    ELSE [sets |-> indexAttributes(Head(events).Attributes, Head(events).Type,
                                   result, hash, seq + 1)
                       \o indexTypedEventList(Tail(events), result, hash,
                                              seq + 1).sets,
          eventSeq |-> indexTypedEventList(Tail(events), result, hash,
                                           seq + 1).eventSeq]

\* indexEvents, the outer loop: eventSeq advances for every event, and an
\* event with an empty type is skipped.
RECURSIVE indexEventList(_, _, _, _)
indexEventList(events, result, hash, seq) ==
    IF events = <<>> THEN [sets |-> <<>>, eventSeq |-> seq]
    ELSE LET event == Head(events)
             rest == indexEventList(Tail(events), result, hash, seq + 1)
             sets == IF Len(event.Type) = 0 THEN <<>>
                     ELSE indexAttributes(event.Attributes, event.Type,
                                          result, hash, seq + 1)
         IN  [sets |-> sets \o rest.sets, eventSeq |-> rest.eventSeq]

\* indexEvents
indexEvents(result, hash, seq) ==
    indexEventList(result.Result.Events, result, hash, seq)

\* Index without lines 119-130: every result is written.
IndexSkipsNothing(db, result) == FALSE

\* TxIndex.Index, lines 119-130: a failing result does not replace a
\* successful one stored under the same hash.
IndexSkips(db, result) ==
    LET oldResult == Get(db, Hash(result.Tx))
    IN  /\ ~IsOK(result)
        /\ oldResult.err = "nil"
        /\ oldResult.res # <<>>
        /\ oldResult.res[1].Result.Code = CodeTypeOK

\* Index without line 149: the batch lacks the row of the result itself.
IndexBatchWithoutResult(result, seq) ==
    [sets |-> indexEvents(result, Hash(result.Tx), seq).sets
                  \o <<<<keyForHeight(result), HashValue(Hash(result.Tx))>>>>,
     eventSeq |-> indexEvents(result, Hash(result.Tx), seq).eventSeq]

\* TxIndex.Index, lines 132-154: the batch of one result.
IndexBatch(result, seq) ==
    LET hash == Hash(result.Tx)
        ev == indexEvents(result, hash, seq)
    IN  [sets |-> ev.sets \o <<<<keyForHeight(result), HashValue(hash)>>>>
                     \o <<<<hash, Marshal(result)>>>>,
         eventSeq |-> ev.eventSeq]

\* Index with lines 119-130 after line 133: a suppressed call has run
\* indexEvents, and leaves the store alone but not eventSeq.
IndexCallAfterEvents(db, seq, result) ==
    IF ~IsOK(result) /\ Get(db, Hash(result.Tx)).err # "nil"
    THEN [store |-> db, eventSeq |-> seq, err |-> Get(db, Hash(result.Tx)).err,
          skipped |-> FALSE]
    ELSE IF IndexSkips(db, result)
    THEN [store |-> db, eventSeq |-> IndexBatch(result, seq).eventSeq,
          err |-> "nil", skipped |-> TRUE]
    ELSE [store |-> WriteSync(db, IndexBatch(result, seq).sets),
          eventSeq |-> IndexBatch(result, seq).eventSeq,
          err |-> "nil", skipped |-> FALSE]

\* TxIndex.Index as a function of the indexer's state.
IndexCall(db, seq, result) ==
    LET oldResult == Get(db, Hash(result.Tx))
        batch == IndexBatch(result, seq)
    IN  IF ~IsOK(result) /\ oldResult.err # "nil"
        THEN [store |-> db, eventSeq |-> seq, err |-> oldResult.err, skipped |-> FALSE]
        ELSE IF IndexSkips(db, result)
        THEN [store |-> db, eventSeq |-> seq, err |-> "nil", skipped |-> TRUE]
        ELSE [store |-> WriteSync(db, batch.sets),
              eventSeq |-> batch.eventSeq,
              err |-> "nil", skipped |-> FALSE]

\* TxIndex.AddBatch: every result of the batch, no skip, one commit.
RECURSIVE AddBatchSets(_, _)
AddBatchSets(ops, seq) ==
    IF ops = <<>> THEN [sets |-> <<>>, eventSeq |-> seq]
    ELSE LET one == IndexBatch(Head(ops), seq)
             rest == AddBatchSets(Tail(ops), one.eventSeq)
         IN  [sets |-> one.sets \o rest.sets, eventSeq |-> rest.eventSeq]

\* AddBatch that treats every result of the batch as Index does.
RECURSIVE AddBatchByIndex(_, _, _)
AddBatchByIndex(db, seq, ops) ==
    IF ops = <<>> THEN [store |-> db, eventSeq |-> seq, err |-> "nil"]
    ELSE AddBatchByIndex(IndexCall(db, seq, Head(ops)).store,
                         IndexCall(db, seq, Head(ops)).eventSeq, Tail(ops))

\* TxIndex.AddBatch as a function of the indexer's state.
AddBatchCall(db, seq, ops) ==
    LET batch == AddBatchSets(ops, seq)
    IN  [store |-> WriteSync(db, batch.sets), eventSeq |-> batch.eventSeq,
         err |-> "nil"]

----------------------------------------------------------------------------
(* Queries: a list of conditions, each a composite key, an operator and an *)
(* operand that is a string, a number (a big.Int) or nil (EXISTS).         *)

Text(t) == [kind |-> "Text", text |-> t, num |-> 0]
Num(n)  == [kind |-> "Int", text |-> <<>>, num |-> n]
Nil     == [kind |-> "Nil", text |-> <<>>, num |-> 0]

Cond(key, op, operand) == [CompositeKey |-> key, Op |-> op, Operand |-> operand]

\* fmt.Sprintf("%v", operand)
FmtV(operand) ==
    CASE operand.kind = "Text" -> operand.text
      [] operand.kind = "Int"  -> FormatInt(operand.num)
      [] OTHER                 -> <<60, 110, 105, 108, 62>>     \* "<nil>"

\* startKey: every field, already formatted with %v, followed by "/".
RECURSIVE startKey(_)
startKey(fields) ==
    IF fields = <<>> THEN <<>>
    ELSE Head(fields) \o tagKeySeparator \o startKey(Tail(fields))

\* startKeyForCondition
startKeyForCondition(c, height) ==
    IF height > 0
    THEN startKey(<<c.CompositeKey, FmtV(c.Operand), FormatInt(height)>>)
    ELSE startKey(<<c.CompositeKey, FmtV(c.Operand)>>)

\* encoding/hex: the value of one hex digit, -1 when it is none.
HexVal(b) ==
    IF b >= 48 /\ b <= 57 THEN b - 48
    ELSE IF b >= 97 /\ b <= 102 THEN b - 87
    ELSE IF b >= 65 /\ b <= 70 THEN b - 55
    ELSE 0 - 1

\* hex.DecodeString: an error on a byte that is no hex digit or an odd length.
HexDecodeString(s) ==
    IF \E i \in 1..Len(s) : HexVal(s[i]) < 0 THEN [bytes |-> <<>>, err |-> TRUE]
    ELSE IF Len(s) % 2 = 1 THEN [bytes |-> <<>>, err |-> TRUE]
    ELSE [bytes |-> [i \in 1..(Len(s) \div 2) |->
                         HexVal(s[2 * i - 1]) * 16 + HexVal(s[2 * i])],
          err |-> FALSE]

\* lookForHash that finds tx.hash only in a query of one condition.
lookForHashAlone(conditions) ==
    IF /\ Len(conditions) = 1
       /\ conditions[1].CompositeKey = TxHashKey
       /\ conditions[1].Operand.kind = "Text"
    THEN [hash |-> HexDecodeString(conditions[1].Operand.text).bytes,
          ok |-> TRUE,
          err |-> HexDecodeString(conditions[1].Operand.text).err,
          panic |-> FALSE]
    ELSE [hash |-> <<>>, ok |-> FALSE, err |-> FALSE, panic |-> FALSE]

\* lookForHash: the first condition on tx.hash, whatever its operator; the
\* type assertion c.Operand.(string) panics on an operand that is no string.
RECURSIVE lookForHash(_)
lookForHash(conditions) ==
    IF conditions = <<>>
    THEN [hash |-> <<>>, ok |-> FALSE, err |-> FALSE, panic |-> FALSE]
    ELSE IF Head(conditions).CompositeKey = TxHashKey
    THEN IF Head(conditions).Operand.kind # "Text"
         THEN [hash |-> <<>>, ok |-> FALSE, err |-> FALSE, panic |-> TRUE]
         ELSE [hash |-> HexDecodeString(Head(conditions).Operand.text).bytes,
               ok |-> TRUE,
               err |-> HexDecodeString(Head(conditions).Operand.text).err,
               panic |-> FALSE]
    ELSE lookForHash(Tail(conditions))

\* The zero QueryRange.
NoRange ==
    [Key |-> <<>>, LowerBound |-> Nil, UpperBound |-> Nil,
     IncludeLowerBound |-> FALSE, IncludeUpperBound |-> FALSE]

\* The zero HeightInfo.
NoHeightInfo ==
    [heightRange |-> NoRange, height |-> 0, heightEqIdx |-> 0,
     onlyHeightRange |-> FALSE, onlyHeightEq |-> FALSE]

\* lookForHeight: the first "tx.height = N" and its (0-based) index; the type
\* assertion of c.Operand to a big.Int panics on an operand that is no number.
lookForHeight(conditions) ==
    LET hit == {i \in 1..Len(conditions) :
                   /\ conditions[i].CompositeKey = TxHeightKey
                   /\ conditions[i].Op = "OpEqual"}
    IN  IF hit = {} THEN [height |-> 0, heightIdx |-> 0 - 1, panic |-> FALSE]
        ELSE IF conditions[SetMin(hit)].Operand.kind # "Int"
        THEN [height |-> 0, heightIdx |-> 0 - 1, panic |-> TRUE]
        ELSE [height |-> conditions[SetMin(hit)].Operand.num,
              heightIdx |-> SetMin(hit) - 1, panic |-> FALSE]

\* intInSlice
intInSlice(a, list) == \E i \in 1..Len(list) : list[i] = a

\* QueryRange.LowerBoundValue: the bound, plus one when it is exclusive.
LowerBoundValue(qr) ==
    IF qr.LowerBound.kind # "Int" THEN qr.LowerBound
    ELSE IF qr.IncludeLowerBound THEN qr.LowerBound
    ELSE Num(qr.LowerBound.num + 1)

\* QueryRange.UpperBoundValue: the bound, minus one when it is exclusive.
UpperBoundValue(qr) ==
    IF qr.UpperBound.kind # "Int" THEN qr.UpperBound
    ELSE IF qr.IncludeUpperBound THEN qr.UpperBound
    ELSE Num(qr.UpperBound.num - 1)

\* checkBounds
checkBounds(ranges, v) ==
    LET lowerBound == LowerBoundValue(ranges)
        upperBound == UpperBoundValue(ranges)
    IN  /\ ~(lowerBound.kind # "Nil" /\ v < lowerBound.num)
        /\ ~(upperBound.kind # "Nil" /\ v > upperBound.num)

\* checkHeightConditions: the key's height against the query's height range,
\* or else against its height equality.
checkHeightConditions(heightInfo, keyHeight) ==
    IF heightInfo.heightRange.Key # <<>>
    THEN checkBounds(heightInfo.heightRange, keyHeight)
    ELSE ~(heightInfo.height # 0 /\ keyHeight # heightInfo.height)

\* dedupMatchEvents: "match.events" counts only as the very first condition
\* and is dropped anywhere else.
dedupMatchEvents(conditions) ==
    LET first == conditions # <<>> /\ conditions[1].CompositeKey = MatchEventKey
        others == SelectSeq(conditions, LAMBDA c : c.CompositeKey # MatchEventKey)
    IN  [conditions |-> IF first THEN <<conditions[1]>> \o others ELSE others,
         matchEvents |-> first]

\* dedupHeight, the loop: st is (dedupConditions, heightCondition,
\* heightRangeExists, found, heightInfo).
RECURSIVE dedupHeightLoop(_, _)
dedupHeightLoop(conditions, st) ==
    IF conditions = <<>> THEN st
    ELSE LET c == Head(conditions)
             next ==
                 IF c.CompositeKey = TxHeightKey
                 THEN IF c.Op = "OpEqual"
                      THEN IF st.heightRangeExists \/ st.found THEN st
                           ELSE [st EXCEPT !.info.height = c.Operand.num,
                                           !.found = TRUE,
                                           !.heightCondition = Append(@, c)]
                      ELSE [st EXCEPT !.info.onlyHeightEq = FALSE,
                                      !.heightRangeExists = TRUE,
                                      !.dedup = Append(@, c)]
                 ELSE [st EXCEPT !.info.onlyHeightRange = FALSE,
                                 !.info.onlyHeightEq = FALSE,
                                 !.dedup = Append(@, c)]
         IN  dedupHeightLoop(Tail(conditions), next)

\* dedupHeight: with match.events, the first height equality moves to the end
\* of the conditions, and is dropped when the query has a height range.
dedupHeight(conditions) ==
    LET st == dedupHeightLoop(conditions,
                  [dedup |-> <<>>, heightCondition |-> <<>>,
                   heightRangeExists |-> FALSE, found |-> FALSE,
                   info |-> [NoHeightInfo EXCEPT !.heightEqIdx = 0 - 1,
                                                 !.onlyHeightEq = TRUE,
                                                 !.onlyHeightRange = TRUE]])
    IN  IF ~st.heightRangeExists /\ st.heightCondition # <<>>
        THEN [conditions |-> st.dedup \o st.heightCondition,
              heightInfo |-> [st.info EXCEPT !.heightEqIdx = Len(st.dedup),
                                             !.onlyHeightRange = FALSE]]
        ELSE [conditions |-> st.dedup,
              heightInfo |-> [st.info EXCEPT !.heightEqIdx = 0 - 1,
                                             !.height = 0,
                                             !.onlyHeightEq = FALSE]]

\* indexer.IsRangeOperation
IsRangeOperation(op) ==
    op \in {"OpLess", "OpLessEqual", "OpGreater", "OpGreaterEqual"}

\* LookForRangesWithHeight, one condition folded into a QueryRange.
WithBound(r, c) ==
    CASE c.Op = "OpGreater"      -> [r EXCEPT !.LowerBound = c.Operand]
      [] c.Op = "OpGreaterEqual" -> [r EXCEPT !.IncludeLowerBound = TRUE,
                                              !.LowerBound = c.Operand]
      [] c.Op = "OpLess"         -> [r EXCEPT !.UpperBound = c.Operand]
      [] c.Op = "OpLessEqual"    -> [r EXCEPT !.IncludeUpperBound = TRUE,
                                              !.UpperBound = c.Operand]
      [] OTHER                   -> r

\* LookForRangesWithHeight, the loop: acc is (ranges, indexes, heightRange),
\* the ranges kept in the order their keys first occur.
RECURSIVE LookForRangesLoop(_, _, _)
LookForRangesLoop(conditions, i, acc) ==
    IF i > Len(conditions) THEN acc
    ELSE LET c == conditions[i]
             at == {j \in 1..Len(acc.ranges) : acc.ranges[j].Key = c.CompositeKey}
             r == IF at = {} THEN [NoRange EXCEPT !.Key = c.CompositeKey]
                  ELSE acc.ranges[SetMin(at)]
             hr == IF at = {} THEN [NoRange EXCEPT !.Key = c.CompositeKey]
                   ELSE acc.heightRange
         IN  IF ~IsRangeOperation(c.Op) THEN LookForRangesLoop(conditions, i + 1, acc)
             ELSE LookForRangesLoop(conditions, i + 1,
                      [ranges |-> IF at = {} THEN Append(acc.ranges, WithBound(r, c))
                                  ELSE [acc.ranges EXCEPT ![SetMin(at)] = WithBound(r, c)],
                       indexes |-> Append(acc.indexes, i - 1),
                       heightRange |-> IF c.CompositeKey = TxHeightKey
                                       THEN WithBound(hr, c)
                                       ELSE acc.heightRange])

\* indexer.LookForRangesWithHeight
LookForRangesWithHeight(conditions) ==
    LookForRangesLoop(conditions, 1,
                      [ranges |-> <<>>, indexes |-> <<>>, heightRange |-> NoRange])

----------------------------------------------------------------------------
(* The predicate evaluators.  A hash set (filteredHashes, tmpHashes) is a  *)
(* function from map keys to hashes.                                       *)

\* const blockToSearch = 5000
blockToSearch == 5000

\* make(map[string][]byte)
EmptyMap == [k \in {} |-> <<>>]

\* The keys of S in the store's order.
RECURSIVE SortKeys(_)
SortKeys(S) ==
    IF S = {} THEN <<>>
    ELSE LET k == CHOOSE x \in S : TRUE
             rest == SortKeys(S \ {k})
             n == Cardinality({o \in S : BytesLess(o, k)})
         IN  SubSeq(rest, 1, n) \o <<k>> \o SubSeq(rest, n + 1, Len(rest))

\* dbm.IteratePrefix(txi.store, prefix): the keys the iterator visits.
IteratePrefix(db, prefix) == SortKeys({k \in DOMAIN db : HasPrefix(k, prefix)})

\* txi.store.Iterator(fromKey, toKey): the keys in [fromKey, toKey).
Iterator(db, fromKey, toKey) ==
    SortKeys({k \in DOMAIN db : ~BytesLess(k, fromKey) /\ BytesLess(k, toKey)})

\* setTmpHashes: keyed by the hash, or by hash + event sequence with match.events.
setTmpHashes(tmpHashes, key, value, matchEvents) ==
    LET k == IF matchEvents THEN value.bz \o extractEventSeqFromKey(key)
             ELSE value.bz
    IN  [x \in DOMAIN tmpHashes \cup {k} |-> IF x = k THEN value.bz ELSE tmpHashes[x]]

\* The match.events height filter of the scan loops (lines 403-409).
HeightFilterPasses(key, matchEvents, heightInfo) ==
    LET keyHeight == extractHeightFromKey(key)
    IN  \/ ~matchEvents
        \/ /\ keyHeight.ok
           /\ checkHeightConditions(heightInfo, keyHeight.v)

\* match, the body of the scan loop of the condition's operator, for one key.
matchKey(c, key, value, tmpHashes, matchEvents, heightInfo) ==
    IF c.Op = "OpContains"
    THEN IF ~isTagKey(key) THEN tmpHashes
         ELSE IF /\ StringsContains(extractValueFromKey(key), c.Operand.text)
                 /\ HeightFilterPasses(key, matchEvents, heightInfo)
              THEN setTmpHashes(tmpHashes, key, value, matchEvents)
              ELSE tmpHashes
    ELSE IF HeightFilterPasses(key, matchEvents, heightInfo)
         THEN setTmpHashes(tmpHashes, key, value, matchEvents)
         ELSE tmpHashes

\* match: the keys its iterator visits (OpEqual scans the start key, OpExists
\* and OpContains the composite key).
matchKeys(db, c, startKeyBz) ==
    IF c.Op = "OpEqual" THEN IteratePrefix(db, startKeyBz)
    ELSE IteratePrefix(db, startKey(<<c.CompositeKey>>))

\* match, the scan loop run to its end.
RECURSIVE matchScan(_, _, _, _, _, _)
matchScan(db, c, keys, tmpHashes, matchEvents, heightInfo) ==
    IF keys = <<>> THEN tmpHashes
    ELSE matchScan(db, c, Tail(keys),
                   matchKey(c, Head(keys), db[Head(keys)], tmpHashes,
                            matchEvents, heightInfo),
                   matchEvents, heightInfo)

\* match and matchRange, the end (lines 492-519, 616-643): tmpHashes when it
\* is empty or on the first run, else filteredHashes without the keys that
\* tmpHashes lacks or maps to another hash.
mergeHashes(filteredHashes, tmpHashes, firstRun) ==
    IF DOMAIN tmpHashes = {} \/ firstRun THEN tmpHashes
    ELSE [k \in {x \in DOMAIN filteredHashes :
                    x \in DOMAIN tmpHashes /\ tmpHashes[x] = filteredHashes[x]}
             |-> filteredHashes[k]]

\* match
match(db, c, startKeyBz, filteredHashes, firstRun, matchEvents, heightInfo) ==
    IF ~firstRun /\ DOMAIN filteredHashes = {} THEN filteredHashes
    ELSE mergeHashes(filteredHashes,
                     matchScan(db, c, matchKeys(db, c, startKeyBz), EmptyMap,
                               matchEvents, heightInfo),
                     firstRun)

\* matchRange without lines 561-568: the bounds as given, never rejected.
rangeBoundsAsGiven(qr) ==
    [ok |-> LowerBoundValue(qr).kind = "Int" \/ UpperBoundValue(qr).kind = "Int",
     lower |-> IF LowerBoundValue(qr).kind = "Int" THEN LowerBoundValue(qr).num
               ELSE 1,
     upper |-> IF UpperBoundValue(qr).kind = "Int" THEN UpperBoundValue(qr).num
               ELSE LowerBoundValue(qr).num + blockToSearch - 1]

\* matchRange, lines 544-568: the heights to scan, none when the range is
\* rejected.
rangeBounds(qr) ==
    LET lowerOk == LowerBoundValue(qr).kind = "Int"
        upperOk == UpperBoundValue(qr).kind = "Int"
        rangeBound == blockToSearch - 1
        lowerBound == IF lowerOk THEN LowerBoundValue(qr).num
                      ELSE UpperBoundValue(qr).num - rangeBound
        upperBound == IF upperOk THEN UpperBoundValue(qr).num
                      ELSE LowerBoundValue(qr).num + rangeBound
        lowerHeight == IF lowerBound < 1 THEN 1 ELSE lowerBound
        upperHeight == upperBound
    IN  IF ~lowerOk /\ ~upperOk THEN [ok |-> FALSE, lower |-> 0, upper |-> 0]
        ELSE IF lowerHeight > upperHeight \/ upperHeight - lowerHeight > blockToSearch
        THEN [ok |-> FALSE, lower |-> lowerHeight, upper |-> upperHeight]
        ELSE [ok |-> TRUE, lower |-> lowerHeight, upper |-> upperHeight]

\* matchRange, lines 571-576: the keys its bounded iterator visits.
matchRangeKeys(db, qr, startKeyBz) ==
    Iterator(db,
             startKeyBz \o BE4(rangeBounds(qr).lower) \o tagKeySeparator,
             startKeyBz \o BE4(rangeBounds(qr).upper) \o tagKeySeparator)

\* matchRange, the body of the scan loop for one key.
matchRangeKey(qr, key, value, tmpHashes, matchEvents, heightInfo) ==
    IF ~isTagKey(key) THEN tmpHashes
    ELSE IF HeightFilterPasses(key, matchEvents /\ qr.Key # TxHeightKey, heightInfo)
    THEN setTmpHashes(tmpHashes, key, value, matchEvents)
    ELSE tmpHashes

\* matchRange, the scan loop run to its end.
RECURSIVE matchRangeScan(_, _, _, _, _, _)
matchRangeScan(db, qr, keys, tmpHashes, matchEvents, heightInfo) ==
    IF keys = <<>> THEN tmpHashes
    ELSE matchRangeScan(db, qr, Tail(keys),
                        matchRangeKey(qr, Head(keys), db[Head(keys)], tmpHashes,
                                      matchEvents, heightInfo),
                        matchEvents, heightInfo)

\* matchRange
matchRange(db, qr, startKeyBz, filteredHashes, firstRun, matchEvents, heightInfo) ==
    IF ~firstRun /\ DOMAIN filteredHashes = {} THEN filteredHashes
    ELSE IF ~rangeBounds(qr).ok THEN filteredHashes
    ELSE mergeHashes(filteredHashes,
                     matchRangeScan(db, qr, matchRangeKeys(db, qr, startKeyBz),
                                    EmptyMap, matchEvents, heightInfo),
                     firstRun)

----------------------------------------------------------------------------
(* Search.                                                                 *)

\* A query: its conditions, and whether q.Conditions() fails.
Query(conditions) == [conditions |-> conditions, err |-> FALSE]

\* Search, lines 228-265: the conditions as evaluated, the indexes to skip,
\* the ranges and the height info.
Plan(conditions0) ==
    LET dm == dedupMatchEvents(conditions0)
        matchEvents == dm.matchEvents
        dh == dedupHeight(dm.conditions)
        lh == lookForHeight(dm.conditions)
        conditions == IF matchEvents THEN dh.conditions ELSE dm.conditions
        heightInfo0 == IF matchEvents THEN dh.heightInfo
                       ELSE [NoHeightInfo EXCEPT !.height = lh.height,
                                                 !.heightEqIdx = lh.heightIdx]
        lr == LookForRangesWithHeight(conditions)
        skipIndexes == (IF matchEvents THEN <<0>> ELSE <<>>)
                          \o (IF matchEvents /\ ~heightInfo0.onlyHeightEq
                              THEN <<heightInfo0.heightEqIdx>> ELSE <<>>)
                          \o (IF Len(lr.ranges) > 0 THEN lr.indexes ELSE <<>>)
    IN  [conditions |-> conditions,
         matchEvents |-> matchEvents,
         heightInfo |-> [heightInfo0 EXCEPT !.heightRange = lr.heightRange],
         ranges |-> lr.ranges,
         skipIndexes |-> skipIndexes,
         panic |-> ~matchEvents /\ lh.panic]

\* match opens its iterator unless it returns at once (line 384).
matchIterators(filteredHashes, firstRun) ==
    IF ~firstRun /\ DOMAIN filteredHashes = {} THEN 0 ELSE 1

\* matchRange opens its iterator unless it returns at once (lines 540-568).
matchRangeIterators(qr, filteredHashes, firstRun) ==
    IF (~firstRun /\ DOMAIN filteredHashes = {}) \/ ~rangeBounds(qr).ok THEN 0 ELSE 1

\* Search, lines 270-293: the loop over the ranges; st is (filteredHashes,
\* hashesInitialized) and the number of iterators opened so far.
RECURSIVE searchRanges(_, _, _, _)
searchRanges(db, plan, ranges, st) ==
    IF ranges = <<>> THEN st
    ELSE LET qr == Head(ranges)
             fh == matchRange(db, qr, startKey(<<qr.Key>>), st.filteredHashes,
                              ~st.hashesInitialized, plan.matchEvents,
                              plan.heightInfo)
             next == [filteredHashes |-> fh, hashesInitialized |-> TRUE,
                      iterators |-> st.iterators
                          + matchRangeIterators(qr, st.filteredHashes,
                                                ~st.hashesInitialized)]
         IN  IF /\ qr.Key = TxHeightKey
                /\ plan.matchEvents
                /\ ~plan.heightInfo.onlyHeightRange
             THEN searchRanges(db, plan, Tail(ranges), st)
             ELSE IF ~st.hashesInitialized /\ DOMAIN fh = {} THEN next
             ELSE searchRanges(db, plan, Tail(ranges), next)

\* Search, lines 297-314: the loop over the other conditions, from index i
\* (0-based).
RECURSIVE searchConditions(_, _, _, _)
searchConditions(db, plan, i, st) ==
    IF i >= Len(plan.conditions) THEN st
    ELSE LET c == plan.conditions[i + 1]
             startKeyBz == startKeyForCondition(c, plan.heightInfo.height)
             fh == match(db, c, startKeyBz, st.filteredHashes,
                         ~st.hashesInitialized, plan.matchEvents, plan.heightInfo)
             next == [filteredHashes |-> fh, hashesInitialized |-> TRUE,
                      iterators |-> st.iterators
                          + matchIterators(st.filteredHashes, ~st.hashesInitialized)]
         IN  IF intInSlice(i, plan.skipIndexes)
             THEN searchConditions(db, plan, i + 1, st)
             ELSE IF ~st.hashesInitialized /\ DOMAIN fh = {} THEN next
             ELSE searchConditions(db, plan, i + 1, next)

\* Search, lines 228-314: the filtered hashes of a query with no tx.hash, and
\* the number of iterators opened for them.
FilteredHashes(db, conditions) ==
    LET plan == Plan(conditions)
    IN  searchConditions(db, plan, 0,
            searchRanges(db, plan, plan.ranges,
                [filteredHashes |-> EmptyMap, hashesInitialized |-> FALSE,
                 iterators |-> 0]))

\* Search, lines 316-337: the materializer.  order lists the map's keys as the
\* range over the map visits them; a result is <<>> (nil) or <<txResult>>;
\* gets counts the calls of Get.
RECURSIVE Materialize(_, _, _, _, _)
Materialize(db, filteredHashes, order, resultMap, results) ==
    IF order = <<>>
    THEN [results |-> results, isNil |-> FALSE, err |-> "nil",
          gets |-> Cardinality(resultMap)]
    ELSE LET h == filteredHashes[Head(order)]
         IN  IF h \in resultMap
             THEN Materialize(db, filteredHashes, Tail(order), resultMap, results)
             ELSE IF Get(db, h).err # "nil"
             THEN [results |-> <<>>, isNil |-> TRUE, err |-> "failed to get Tx",
                   gets |-> Cardinality(resultMap) + 1]
             ELSE Materialize(db, filteredHashes, Tail(order),
                              resultMap \cup {h}, Append(results, Get(db, h).res))

\* What Search returns before its materializer.
Return(results, isNil, err, gets) ==
    [returned |-> TRUE, filteredHashes |-> EmptyMap, iterators |-> 0,
     ret |-> [results |-> results, isNil |-> isNil, err |-> err, gets |-> gets]]

\* TxIndex.Search, lines 203-314, with a live token: what Search returns
\* before its materializer (returned), or else the filtered hashes it hands
\* to it, and the number of iterators it opened.
SearchLive(db, q) ==
    LET lh == lookForHash(q.conditions)
        res == Get(db, lh.hash)
        plan == Plan(q.conditions)
        fh == FilteredHashes(db, q.conditions)
    IN  IF q.err
        THEN Return(<<>>, TRUE, "error during parsing conditions from query", 0)
        ELSE IF lh.panic THEN Return(<<>>, TRUE, "panic", 0)
        ELSE IF lh.err
        THEN Return(<<>>, TRUE, "error during searching for a hash in the query", 0)
        ELSE IF lh.ok
        THEN IF res.err # "nil"
             THEN Return(<<>>, FALSE, "error while retrieving the result", 1)
             ELSE IF res.res = <<>> THEN Return(<<>>, FALSE, "nil", 1)
             ELSE Return(<<res.res>>, FALSE, "nil", 1)
        ELSE IF plan.panic THEN Return(<<>>, TRUE, "panic", 0)
        ELSE [returned |-> FALSE, filteredHashes |-> fh.filteredHashes,
              iterators |-> fh.iterators,
              ret |-> [results |-> <<>>, isNil |-> FALSE, err |-> "nil", gets |-> 0]]

\* Search without lines 196-201: the token is not polled on entry.
SearchHashesUnpolled(db, ctxDone, q) == SearchLive(db, q)

\* TxIndex.Search, lines 196-314: the token is polled first, and a cancelled
\* one returns the empty list.
SearchHashes(db, ctxDone, q) ==
    IF ctxDone THEN Return(<<>>, FALSE, "nil", 0) ELSE SearchLive(db, q)

\* TxIndex.Search, lines 316-337, after SearchHashes: what Search returns,
\* with the iterators it opened and the calls of Get it made.
SearchResults(db, sh, order) ==
    LET ret == IF sh.returned THEN sh.ret
               ELSE Materialize(db, sh.filteredHashes, order, {}, <<>>)
    IN  [results |-> ret.results, isNil |-> ret.isNil, err |-> ret.err,
         gets |-> ret.gets, iterators |-> sh.iterators]

\* The orderings of a set.
RECURSIVE Orderings(_)
Orderings(S) ==
    IF S = {} THEN {<<>>}
    ELSE UNION {{<<x>> \o p : p \in Orderings(S \ {x})} : x \in S}

\* The keys of the map m, grouped by their hash in the order p of the hashes.
RECURSIVE KeysByHash(_, _)
KeysByHash(m, p) ==
    IF p = <<>> THEN <<>>
    ELSE SortKeys({k \in DOMAIN m : m[k] = Head(p)}) \o KeysByHash(m, Tail(p))

\* The orders in which the range over the map m may visit its keys.  What the
\* materializer returns depends on the order only through the order in which
\* the hashes first appear, so there is one order of the keys for every order
\* of the hashes.
MapOrders(m) ==
    {KeysByHash(m, p) : p \in Orderings({m[k] : k \in DOMAIN m})}

\* TxIndex.Search, with the token's state on entry and the order in which the
\* materializer's range over filteredHashes visits the map.
Search(db, ctxDone, q, order) ==
    SearchResults(db, SearchHashes(db, ctxDone, q), order)

\* The results of Search as a set: the same for every order.
SearchSet(db, q) ==
    LET sh == SearchHashes(db, FALSE, q)
        ret == SearchResults(db, sh, SortKeys(DOMAIN sh.filteredHashes))
    IN  {ret.results[i] : i \in 1..Len(ret.results)}

----------------------------------------------------------------------------
(* The inputs of the model.                                                *)

Attr(key, value, index) == [Key |-> key, Value |-> value, Index |-> index]

\* event "a" with attributes o (owner) and n (num), all indexed
AccEvent(owner, num) ==
    [Type |-> <<97>>,
     Attributes |-> <<Attr(<<111>>, owner, TRUE), Attr(<<110>>, num, TRUE)>>]

\* composite keys "a.o" and "a.n"
KeyOwner == <<97, 46, 111>>
KeyNum == <<97, 46, 110>>

\* attribute values "I" (Ivan), "J" (John), "1", "2"
Ivan == <<73>>
John == <<74>>
One == <<49>>
Two == <<50>>

\* The event lists: owner I with num 1 and owner J with num 2 in two events,
\* and owner I with num 2 in one event.
TwoEvents == <<AccEvent(Ivan, One), AccEvent(John, Two)>>
OneEvent == <<AccEvent(Ivan, Two)>>
EventLists == {TwoEvents, OneEvent}

Heights == {1, 2}
Codes == {0, 1}

\* A tx has one position in its block.
TxPosition(tx) == tx[1] - 1

ResultsOf(tx, codes, eventLists) ==
    {[Height |-> h, Index |-> TxPosition(tx), Tx |-> tx,
      Result |-> [Code |-> code, Events |-> events]] :
        h \in Heights, code \in codes, events \in eventLists}

\* The results written: the first tx of a block with every code and event
\* list, the second one successful with the two events.
TxResults ==
    ResultsOf(<<1>>, Codes, EventLists) \cup ResultsOf(<<2>>, {CodeTypeOK}, {TwoEvents})

\* The batches of AddBatch: one result, or two results of one block in the
\* block's order, while n writes remain.
Batches(n) ==
    {<<r>> : r \in TxResults}
        \cup (IF n < 2 THEN {}
              ELSE {b \in {<<r1, r2>> : r1 \in TxResults, r2 \in TxResults} :
                       b[1].Height = b[2].Height /\ b[1].Index < b[2].Index})

\* The hex operands of "tx.hash = H": "FF01" and "ff02", the hashes of the two
\* txs, and "zz", which is no hex.
HexOfTx1 == <<70, 70, 48, 49>>
HexOfTx2 == <<102, 102, 48, 50>>
NotHex == <<122, 122>>

MatchEventsCond == Cond(MatchEventKey, "OpEqual", Num(1))
OwnerIs(v) == Cond(KeyOwner, "OpEqual", Text(v))
NumIs(v) == Cond(KeyNum, "OpEqual", Text(v))
HeightIs(n) == Cond(TxHeightKey, "OpEqual", Num(n))
HashIs(hex) == Cond(TxHashKey, "OpEqual", Text(hex))

\* "t.k = v" for every attribute of the event lists
EqualityQueries ==
    {Query(<<OwnerIs(Ivan)>>), Query(<<OwnerIs(John)>>),
     Query(<<NumIs(One)>>), Query(<<NumIs(Two)>>)}

\* two conditions on attributes, without and with match.events
AttributePairs ==
    {<<OwnerIs(Ivan), NumIs(Two)>>,
     <<Cond(KeyOwner, "OpExists", Nil), NumIs(One)>>,
     <<Cond(KeyOwner, "OpContains", Text(John)), NumIs(Two)>>}

PairQueries ==
    {Query(p) : p \in AttributePairs}
        \cup {Query(<<MatchEventsCond>> \o p) : p \in AttributePairs}

\* "tx.height = 1" alone and with an attribute, without and with
\* match.events, and the height range 1..2 whole and half
HeightRange == <<Cond(TxHeightKey, "OpGreaterEqual", Num(1)),
                 Cond(TxHeightKey, "OpLessEqual", Num(2))>>

HeightQueries ==
    {Query(<<HeightIs(1)>>),
     Query(<<OwnerIs(Ivan), HeightIs(1)>>),
     Query(<<MatchEventsCond, OwnerIs(Ivan), HeightIs(1)>>),
     Query(HeightRange),
     Query(<<HeightRange[1], OwnerIs(John)>>)}

\* queries with "tx.hash = H" for a hex H: alone, before an attribute the
\* tx may lack, among match.events and height conditions, after another
\* tx.hash, and with the empty operand
HashQueries ==
    {Query(<<HashIs(HexOfTx1)>>),
     Query(<<HashIs(HexOfTx2), OwnerIs(John)>>),
     Query(<<MatchEventsCond, NumIs(One), HeightIs(2), HashIs(HexOfTx1),
             Cond(TxHeightKey, "OpLess", Num(1))>>),
     Query(<<HashIs(HexOfTx2), HashIs(HexOfTx1)>>),
     Query(<<HashIs(<<>>)>>)}

\* the queries of Search: the above, "tx.hash = 'zz'", and a query whose
\* Conditions() fails
Queries ==
    EqualityQueries \cup PairQueries \cup HeightQueries \cup HashQueries
        \cup {Query(<<HashIs(NotHex)>>), [conditions |-> <<>>, err |-> TRUE]}

\* the queries of the Search that runs step by step: one and two attribute
\* conditions, without and with match.events, the height range alone and
\* before a condition, and a tx.hash
StepQueries ==
    {Query(<<OwnerIs(Ivan)>>),
     Query(<<OwnerIs(Ivan), NumIs(Two)>>),
     Query(<<MatchEventsCond, Cond(KeyOwner, "OpContains", Text(John)), NumIs(Two)>>),
     Query(HeightRange),
     Query(<<HeightRange[1], OwnerIs(John)>>),
     Query(<<HashIs(HexOfTx1)>>)}

\* The event lists of the write path: an event with an empty type, an event
\* whose attributes have an empty key or index = false (Quiet), and an event
\* with one indexed attribute and one that is not (Mixed).
QuietEvents ==
    <<[Type |-> <<>>, Attributes |-> <<Attr(<<111>>, Ivan, TRUE)>>],
      [Type |-> <<97>>,
       Attributes |-> <<Attr(<<>>, Ivan, TRUE), Attr(<<110>>, One, FALSE)>>]>>
MixedEvents ==
    <<[Type |-> <<97>>,
       Attributes |-> <<Attr(<<111>>, John, TRUE), Attr(<<110>>, One, FALSE)>>]>>

\* The results of the write path: the first tx with every height, code and
\* event list, the second one successful in the first block.
WriteResults ==
    ResultsOf(<<1>>, Codes, {TwoEvents, QuietEvents, MixedEvents})
        \cup {r \in ResultsOf(<<2>>, {CodeTypeOK}, {OneEvent}) : r.Height = 1}

\* The batches of the write path: one result, or any two, while n writes
\* remain.
WriteBatches(n) ==
    {<<r>> : r \in WriteResults}
        \cup (IF n < 2 THEN {}
              ELSE {<<r1, r2>> : r1 \in WriteResults, r2 \in WriteResults})

----------------------------------------------------------------------------
(* The state machine.                                                      *)

NoCall == [op |-> "none"]

\* hist after a call on the results ops, in their order: for every hash, the
\* number of calls on it, and of the last of them the operation, its result,
\* what it returned, the number of writes before it (at), and the operation
\* of the call before (prev).
RECURSIVE Record(_, _, _, _, _)
Record(h, op, ops, err, skipped) ==
    IF ops = <<>> THEN h
    ELSE LET hash == Hash(Head(ops).Tx)
             n == IF hash \in DOMAIN h THEN h[hash].n ELSE 0
             rec == [n |-> n + 1, op |-> op, arg |-> Head(ops), err |-> err,
                     skipped |-> skipped, at |-> writes,
                     prev |-> IF n = 0 THEN "none" ELSE h[hash].op]
         IN  Record([x \in DOMAIN h \cup {hash} |-> IF x = hash THEN rec ELSE h[x]],
                    op, Tail(ops), err, skipped)

Init ==
    /\ store = EmptyMap
    /\ eventSeq = 0
    /\ writes = 0
    /\ last = NoCall
    /\ hist = EmptyMap
    /\ sr = [pc |-> "idle"]

\* Search changes nothing of the indexer, so a run of the model ends at its
\* first Search: a state that a write after a Search reaches is reached by the
\* same writes without the Search.
NoSearchYet == last.op # "Search"

\* txi.Index(result)
Index(result) ==
    LET call == IndexCall(store, eventSeq, result)
    IN  /\ NoSearchYet
        /\ sr.pc = "idle"
        /\ writes < MaxWrites
        /\ store' = call.store
        /\ eventSeq' = call.eventSeq
        /\ writes' = writes + 1
        /\ last' = [op |-> "Index", arg |-> result,
                    err |-> call.err, skipped |-> call.skipped]
        /\ hist' = Record(hist, "Index", <<result>>, call.err, call.skipped)
        /\ UNCHANGED sr

\* txi.AddBatch(b); found is what the store held for the hash of every
\* result of the batch when AddBatch was called.
AddBatch(ops) ==
    LET call == AddBatchCall(store, eventSeq, ops)
    IN  /\ NoSearchYet
        /\ sr.pc = "idle"
        /\ writes + Len(ops) <= MaxWrites
        /\ store' = call.store
        /\ eventSeq' = call.eventSeq
        /\ writes' = writes + Len(ops)
        /\ last' = [op |-> "AddBatch", arg |-> ops, err |-> call.err,
                    found |-> [i \in 1..Len(ops) |->
                                  Get(store, Hash(ops[i].Tx)).res]]
        /\ hist' = Record(hist, "AddBatch", ops, call.err, FALSE)
        /\ UNCHANGED sr

\* txi.Search(ctx, q), run from its entry to its return; the materializer's
\* range over the map visits its keys in any order.
SearchCall(q, ctxDone) ==
    LET sh == SearchHashes(store, ctxDone, q)
    IN  /\ NoSearchYet
        /\ \E order \in MapOrders(sh.filteredHashes) :
               last' = [op |-> "Search", arg |-> q, ctxDone |-> ctxDone,
                        ret |-> SearchResults(store, sh, order)]
        /\ UNCHANGED <<store, eventSeq, writes, hist, sr>>

Next ==
    \/ \E result \in TxResults : Index(result)
    \/ \E ops \in Batches(MaxWrites - writes) : AddBatch(ops)
    \/ \E q \in Queries, ctxDone \in BOOLEAN : SearchCall(q, ctxDone)

Spec == Init /\ [][Next]_vars

----------------------------------------------------------------------------
(* Search step by step: every scanned key and every fetched result is a    *)
(* step, and the token may be cancelled between any two of them.  sr is    *)
(* the running call: its query q, the evaluator calls ahead of it (work),  *)
(* filteredHashes and hashesInitialized, the open iterator's keys ahead    *)
(* and its tmpHashes, the materializer's keys ahead (order), resultMap and *)
(* results, what it returns, the token (ctxDone), whether a select of the  *)
(* call has taken the case of ctx.Done (sawDone), and its Gets and         *)
(* iterators.                                                              *)

\* A call of matchRange or match that Search makes.
RangeCall(qr) == [kind |-> "range", qr |-> qr, c |-> Cond(<<>>, "OpEqual", Nil)]
CondCall(c) == [kind |-> "cond", qr |-> NoRange, c |-> c]

\* Search, lines 270-278: the ranges it evaluates.
WorkOfRanges(plan) ==
    LET kept == SelectSeq(plan.ranges,
                          LAMBDA qr : ~(/\ qr.Key = TxHeightKey
                                        /\ plan.matchEvents
                                        /\ ~plan.heightInfo.onlyHeightRange))
    IN  [i \in 1..Len(kept) |-> RangeCall(kept[i])]

\* Search, lines 297-300: the conditions it evaluates, from index i (0-based).
RECURSIVE WorkOfConditions(_, _)
WorkOfConditions(plan, i) ==
    IF i >= Len(plan.conditions) THEN <<>>
    ELSE (IF intInSlice(i, plan.skipIndexes) THEN <<>>
          ELSE <<CondCall(plan.conditions[i + 1])>>)
             \o WorkOfConditions(plan, i + 1)

\* Search, lines 284-288 and 306-310: the calls left after a call returned
\* result: the first call with no match breaks its loop.
WorkAfter(work, firstRun, result) ==
    IF firstRun /\ DOMAIN result = {}
    THEN IF Head(work).kind = "range"
         THEN SelectSeq(Tail(work), LAMBDA w : w.kind = "cond")
         ELSE <<>>
    ELSE Tail(work)

\* match: whether the iteration over key reaches the select at its end.
matchPolls(c, key, matchEvents, heightInfo) ==
    IF c.Op = "OpContains"
    THEN /\ isTagKey(key)
         /\ \/ ~StringsContains(extractValueFromKey(key), c.Operand.text)
            \/ HeightFilterPasses(key, matchEvents, heightInfo)
    ELSE HeightFilterPasses(key, matchEvents, heightInfo)

\* matchRange: whether the iteration over key reaches the select at its end.
matchRangePolls(qr, key, matchEvents, heightInfo) ==
    /\ isTagKey(key)
    /\ HeightFilterPasses(key, matchEvents /\ qr.Key # TxHeightKey, heightInfo)

\* The call has returned.
Returned(ret, gets) ==
    [pc |-> "done", q |-> sr.q, work |-> <<>>, filteredHashes |-> EmptyMap,
     hashesInitialized |-> FALSE, keys |-> <<>>, tmpHashes |-> EmptyMap,
     order |-> <<>>, resultMap |-> {}, results |-> ret.results,
     isNil |-> ret.isNil, err |-> ret.err, ctxDone |-> sr.ctxDone,
     sawDone |-> sr.sawDone, gets |-> gets, iterators |-> sr.iterators]

\* The calls of matchRange and match ahead of a Search with this plan.
WorkOf(plan) == WorkOfRanges(plan) \o WorkOfConditions(plan, 0)

\* The call after lines 196-265: returned (live.returned), or before its
\* first evaluator with work ahead.
Begun(q, live, work) ==
    [pc |-> IF live.returned THEN "done" ELSE "next",
     q |-> q,
     work |-> IF live.returned THEN <<>> ELSE work,
     filteredHashes |-> EmptyMap, hashesInitialized |-> FALSE,
     keys |-> <<>>, tmpHashes |-> EmptyMap, order |-> <<>>,
     resultMap |-> {}, results |-> live.ret.results,
     isNil |-> live.ret.isNil, err |-> live.ret.err,
     ctxDone |-> FALSE, sawDone |-> FALSE,
     gets |-> live.ret.gets, iterators |-> 0]

\* Search is called with a live token: lines 196-265.
SearchBegin(q) ==
    /\ NoSearchYet
    /\ sr.pc = "idle"
    /\ sr' = Begun(q, SearchLive(store, q), WorkOf(Plan(q.conditions)))
    /\ UNCHANGED <<store, eventSeq, writes, last, hist>>

\* match or matchRange is called and returns at once (lines 384-386,
\* 540-568); its iterator is not opened.
ReturnsAtOnce(item, filteredHashes, firstRun) ==
    \/ ~firstRun /\ DOMAIN filteredHashes = {}
    \/ item.kind = "range" /\ ~rangeBounds(item.qr).ok

EvaluatorReturns ==
    /\ sr.pc = "next"
    /\ sr.work # <<>>
    /\ ReturnsAtOnce(Head(sr.work), sr.filteredHashes, ~sr.hashesInitialized)
    /\ sr' = [sr EXCEPT !.hashesInitialized = TRUE,
                        !.work = WorkAfter(sr.work, ~sr.hashesInitialized,
                                           sr.filteredHashes)]
    /\ UNCHANGED <<store, eventSeq, writes, last, hist>>

\* match or matchRange is called and opens its iterator.
EvaluatorOpens ==
    LET item == Head(sr.work)
    IN  /\ sr.pc = "next"
        /\ sr.work # <<>>
        /\ ~ReturnsAtOnce(item, sr.filteredHashes, ~sr.hashesInitialized)
        /\ sr' = [sr EXCEPT
                     !.pc = "scan",
                     !.keys = IF item.kind = "range"
                              THEN matchRangeKeys(store, item.qr, startKey(<<item.qr.Key>>))
                              ELSE matchKeys(store, item.c,
                                       startKeyForCondition(item.c,
                                           Plan(sr.q.conditions).heightInfo.height)),
                     !.tmpHashes = EmptyMap,
                     !.iterators = @ + 1]
        /\ UNCHANGED <<store, eventSeq, writes, last, hist>>

\* One iteration of the scan loop of match or matchRange: the key is added
\* to tmpHashes or passed over, and the select at the end of the iteration
\* polls the token; its break leaves the select, not the loop.
ScanKey ==
    LET item == Head(sr.work)
        key == Head(sr.keys)
        plan == Plan(sr.q.conditions)
    IN  /\ sr.pc = "scan"
        /\ sr.keys # <<>>
        /\ sr' = [sr EXCEPT
                     !.keys = Tail(sr.keys),
                     !.tmpHashes =
                         IF item.kind = "range"
                         THEN matchRangeKey(item.qr, key, store[key], sr.tmpHashes,
                                            plan.matchEvents, plan.heightInfo)
                         ELSE matchKey(item.c, key, store[key], sr.tmpHashes,
                                       plan.matchEvents, plan.heightInfo),
                     !.sawDone =
                         \/ sr.sawDone
                         \/ /\ sr.ctxDone
                            /\ IF item.kind = "range"
                               THEN matchRangePolls(item.qr, key, plan.matchEvents,
                                                    plan.heightInfo)
                               ELSE matchPolls(item.c, key, plan.matchEvents,
                                               plan.heightInfo)]
        /\ UNCHANGED <<store, eventSeq, writes, last, hist>>

\* The iterator is at its end: tmpHashes is merged into filteredHashes
\* (lines 492-519, 616-643) and the evaluator returns.
ScanClose ==
    LET merged == mergeHashes(sr.filteredHashes, sr.tmpHashes, ~sr.hashesInitialized)
    IN  /\ sr.pc = "scan"
        /\ sr.keys = <<>>
        /\ sr' = [sr EXCEPT
                     !.pc = "next",
                     !.filteredHashes = merged,
                     !.hashesInitialized = TRUE,
                     !.tmpHashes = EmptyMap,
                     !.work = WorkAfter(sr.work, ~sr.hashesInitialized, merged)]
        /\ UNCHANGED <<store, eventSeq, writes, last, hist>>

\* The loops over the ranges and the conditions are over: the materializer
\* starts its range over filteredHashes (lines 316-318).
StartFetch ==
    /\ sr.pc = "next"
    /\ sr.work = <<>>
    /\ \E order \in MapOrders(sr.filteredHashes) :
           sr' = [sr EXCEPT !.pc = "fetch", !.order = order]
    /\ UNCHANGED <<store, eventSeq, writes, last, hist>>

\* One iteration of the materializer (lines 318-334): a hash not seen yet is
\* fetched with Get, and the select at the end polls the token; its break
\* leaves the select, not the loop.
Fetch ==
    LET h == sr.filteredHashes[Head(sr.order)]
        res == Get(store, h)
    IN  /\ sr.pc = "fetch"
        /\ sr.order # <<>>
        /\ sr' = IF h \in sr.resultMap
                 THEN [sr EXCEPT !.order = Tail(sr.order),
                                 !.sawDone = sr.sawDone \/ sr.ctxDone]
                 ELSE IF res.err # "nil"
                 THEN Returned([results |-> <<>>, isNil |-> TRUE,
                                err |-> "failed to get Tx"], sr.gets + 1)
                 ELSE [sr EXCEPT !.order = Tail(sr.order),
                                 !.resultMap = sr.resultMap \cup {h},
                                 !.results = Append(sr.results, res.res),
                                 !.gets = sr.gets + 1,
                                 !.sawDone = sr.sawDone \/ sr.ctxDone]
        /\ UNCHANGED <<store, eventSeq, writes, last, hist>>

\* Search returns its results (line 336).
SearchReturn ==
    /\ sr.pc = "fetch"
    /\ sr.order = <<>>
    /\ sr' = Returned([results |-> sr.results, isNil |-> FALSE, err |-> "nil"],
                      sr.gets)
    /\ UNCHANGED <<store, eventSeq, writes, last, hist>>

\* The caller cancels the token of the running Search.
Cancel ==
    /\ sr.pc \in {"next", "scan", "fetch"}
    /\ ~sr.ctxDone
    /\ sr' = [sr EXCEPT !.ctxDone = TRUE]
    /\ UNCHANGED <<store, eventSeq, writes, last, hist>>

\* The results written before the Search that runs step by step: the
\* successful ones of the first block.
StepResults == {r \in TxResults : r.Height = 1 /\ r.Result.Code = CodeTypeOK}
StepBatches(n) == {b \in Batches(n) : \A i \in 1..Len(b) : b[i] \in StepResults}

NextSteps ==
    \/ \E result \in StepResults : Index(result)
    \/ \E ops \in StepBatches(MaxWrites - writes) : AddBatch(ops)
    \/ \E q \in StepQueries : SearchBegin(q)
    \/ EvaluatorReturns
    \/ EvaluatorOpens
    \/ ScanKey
    \/ ScanClose
    \/ StartFetch
    \/ Fetch
    \/ SearchReturn
    \/ Cancel

SpecSteps == Init /\ [][NextSteps]_vars

----------------------------------------------------------------------------
(* Search step by step while Index and AddBatch are called: the writers    *)
(* are serialized, each commits its batch in one step (WriteSync), and a   *)
(* step of the running Search comes before or after it.                    *)

\* txi.Index(result), called while Search runs.
IndexDuringSearch(result) ==
    LET call == IndexCall(store, eventSeq, result)
    IN  /\ sr.pc \in {"next", "scan", "fetch"}
        /\ writes < MaxWrites
        /\ store' = call.store
        /\ eventSeq' = call.eventSeq
        /\ writes' = writes + 1
        /\ last' = [op |-> "Index", arg |-> result, err |-> call.err,
                    skipped |-> call.skipped, during |-> sr.pc]
        /\ hist' = Record(hist, "Index", <<result>>, call.err, call.skipped)
        /\ UNCHANGED sr

\* txi.AddBatch(b), called while Search runs.
AddBatchDuringSearch(ops) ==
    LET call == AddBatchCall(store, eventSeq, ops)
    IN  /\ sr.pc \in {"next", "scan", "fetch"}
        /\ writes + Len(ops) <= MaxWrites
        /\ store' = call.store
        /\ eventSeq' = call.eventSeq
        /\ writes' = writes + Len(ops)
        /\ last' = [op |-> "AddBatch", arg |-> ops, err |-> call.err,
                    during |-> sr.pc]
        /\ hist' = Record(hist, "AddBatch", ops, call.err, FALSE)
        /\ UNCHANGED sr

\* The writes before and during the Search are the successful results of
\* TxResults, at both heights; the queries are "a.o = 'I'", without and with
\* match.events and after "tx.height >= 1", and a tx.hash.
NextConcurrent ==
    \/ \E result \in {r \in TxResults : IsOK(r)} : Index(result)
    \/ \E q \in {Query(<<OwnerIs(Ivan)>>), Query(<<MatchEventsCond, OwnerIs(Ivan)>>),
                  Query(<<HeightRange[1], OwnerIs(Ivan)>>),
                  Query(<<HashIs(HexOfTx1)>>)} :
           SearchBegin(q)
    \/ EvaluatorReturns
    \/ EvaluatorOpens
    \/ ScanKey
    \/ ScanClose
    \/ StartFetch
    \/ Fetch
    \/ SearchReturn
    \/ \E result \in {r \in TxResults : IsOK(r)} : IndexDuringSearch(result)
    \/ \E ops \in {b \in Batches(MaxWrites - writes) :
                      \A i \in 1..Len(b) : IsOK(b[i])} :
           AddBatchDuringSearch(ops)

SpecConcurrent == Init /\ [][NextConcurrent]_vars

----------------------------------------------------------------------------
(* The write path alone: Index and AddBatch on results with every kind of  *)
(* event, and batches that hold one hash twice.                            *)

NextWrites ==
    \/ \E result \in WriteResults : Index(result)
    \/ \E ops \in WriteBatches(MaxWrites - writes) : AddBatch(ops)

SpecWrites == Init /\ [][NextWrites]_vars

----------------------------------------------------------------------------
(* matchRange alone, called on a store that Index has filled, with every   *)
(* kind of height range and filter set.                                    *)

\* A range over tx.height; a bound is a number or nil, inclusive or not.
HeightRangeOf(lower, upper, inclusive) ==
    [Key |-> TxHeightKey, LowerBound |-> lower, UpperBound |-> upper,
     IncludeLowerBound |-> inclusive, IncludeUpperBound |-> inclusive]

\* The ranges: 1..10000 and 1..5002 (too wide), 1..5001 and 0..5001 (as wide
\* as allowed, the second after the clamp), 3..2 (empty), 2..2, 1 < h < 5003
\* (2..5002), the one-sided ..3, ..0 and 1.., and the range with no bound.
Ranges ==
    {HeightRangeOf(Num(1), Num(10000), TRUE), HeightRangeOf(Num(1), Num(5002), TRUE),
     HeightRangeOf(Num(1), Num(5001), TRUE), HeightRangeOf(Num(0), Num(5001), TRUE),
     HeightRangeOf(Num(3), Num(2), TRUE), HeightRangeOf(Num(2), Num(2), TRUE),
     HeightRangeOf(Num(1), Num(5003), FALSE),
     HeightRangeOf(Nil, Num(3), TRUE), HeightRangeOf(Nil, Num(0), TRUE),
     HeightRangeOf(Num(1), Nil, TRUE), HeightRangeOf(Nil, Nil, FALSE)}

\* The filter sets handed to matchRange: none, the first tx, and both txs.
FilterSets ==
    {EmptyMap,
     [k \in {Hash(<<1>>)} |-> k],
     [k \in {Hash(<<1>>), Hash(<<2>>)} |-> k]}

\* txi.matchRange(ctx, qr, startKey(qr.Key), filteredHashes, firstRun, false,
\* heightInfo) with a live token.
MatchRangeCall(qr, filteredHashes, firstRun) ==
    /\ last.op \notin {"Search", "matchRange"}
    /\ last' = [op |-> "matchRange",
                arg |-> [qr |-> qr, filteredHashes |-> filteredHashes,
                         firstRun |-> firstRun],
                ret |-> matchRange(store, qr, startKey(<<qr.Key>>), filteredHashes,
                                   firstRun, FALSE, NoHeightInfo),
                iterators |-> matchRangeIterators(qr, filteredHashes, firstRun)]
    /\ UNCHANGED <<store, eventSeq, writes, hist, sr>>

\* "tx.height >= 1 AND tx.height <= 10000", alone and before a condition.
WideQueries ==
    {Query(<<Cond(TxHeightKey, "OpGreaterEqual", Num(1)),
             Cond(TxHeightKey, "OpLessEqual", Num(10000))>>),
     Query(<<Cond(TxHeightKey, "OpGreaterEqual", Num(1)),
             Cond(TxHeightKey, "OpLessEqual", Num(10000)), OwnerIs(Ivan)>>)}

NextRange ==
    \/ \E result \in StepResults : Index(result)
    \/ \E qr \in Ranges, fh \in FilterSets, firstRun \in BOOLEAN :
           MatchRangeCall(qr, fh, firstRun)
    \/ \E q \in WideQueries : SearchCall(q, FALSE)

SpecRange == Init /\ [][NextRange]_vars

----------------------------------------------------------------------------
(* Queries with an operator other than "=", on txs with one owner          *)
(* attribute each.                                                         *)

\* One event "a" with one attribute: o = "Ivan", "Ulan", "Ivanov" or
\* "I/van", o = "Ivan" not indexed, and the attribute "o/van" = "x".
NameEvents ==
    {<<[Type |-> <<97>>, Attributes |-> <<Attr(<<111>>, v, TRUE)>>]>> :
         v \in {<<73, 118, 97, 110>>, <<85, 108, 97, 110>>,
                <<73, 118, 97, 110, 111, 118>>, <<73, 47, 118, 97, 110>>}}
        \cup {<<[Type |-> <<97>>,
                 Attributes |-> <<Attr(<<111>>, <<73, 118, 97, 110>>, FALSE)>>]>>,
              <<[Type |-> <<97>>,
                 Attributes |-> <<Attr(<<111, 47, 118, 97, 110>>, <<120>>, TRUE)>>]>>}

\* Three txs of the first block, each with any of the events.
NameResults ==
    {[Height |-> 1, Index |-> TxPosition(tx), Tx |-> tx,
      Result |-> [Code |-> CodeTypeOK, Events |-> events]] :
        tx \in {<<1>>, <<2>>, <<3>>}, events \in NameEvents}

\* "a.o CONTAINS 'van'" and "a.o CONTAINS 'I'"
ContainsQueries ==
    {Query(<<Cond(KeyOwner, "OpContains", Text(<<118, 97, 110>>))>>),
     Query(<<Cond(KeyOwner, "OpContains", Text(Ivan))>>)}

\* "tx.hash CONTAINS 'FF01'", "tx.hash EXISTS" and "tx.hash > 1"
HashOperatorQueries ==
    {Query(<<Cond(TxHashKey, "OpContains", Text(HexOfTx1))>>),
     Query(<<Cond(TxHashKey, "OpExists", Nil)>>),
     Query(<<Cond(TxHashKey, "OpGreater", Num(1))>>)}

NextOperators ==
    \/ \E result \in NameResults : Index(result)
    \/ \E q \in ContainsQueries \cup HashOperatorQueries
                  \cup {Query(<<OwnerIs(Ivan)>>)} :
           SearchCall(q, FALSE)

SpecOperators == Init /\ [][NextOperators]_vars

----------------------------------------------------------------------------
(* The key codec alone: keyForEvent, then extractValueFromKey.             *)

\* extractValueFromKey(keyForEvent(key, value, result, eventSeq))
CodecCall(key, value, result, seq) ==
    /\ last' = [op |-> "keyForEvent",
                arg |-> [key |-> key, value |-> value, result |-> result,
                         eventSeq |-> seq],
                ret |-> keyForEvent(key, value, result, seq),
                value |-> extractValueFromKey(keyForEvent(key, value, result, seq))]
    /\ UNCHANGED <<store, eventSeq, writes, hist, sr>>

\* The composite tags "a.o", "a.n", "a/b.o" and "a.o/n", the values "", "I",
\* "1", "$es$" and "I/J", three heights, two indexes, three sequences.
NextCodec ==
    \E key \in {KeyOwner, KeyNum, <<97, 47, 98, 46, 111>>, <<97, 46, 111, 47, 110>>},
       value \in {<<>>, Ivan, One, eventSeqSeparator, <<73, 47, 74>>},
       h \in {1, 2, 10}, i \in {0, 1}, seq \in {1, 2, 10} :
        CodecCall(key, value, [Height |-> h, Index |-> i], seq)

SpecCodec == Init /\ [][NextCodec]_vars

----------------------------------------------------------------------------
(* The by-height key over the whole of int64.  A height is written here as *)
(* its four 16-bit limbs, the most significant first, since the heights    *)
(* from 2^31 on lie beyond the integers of the model checker.              *)

\* fmt's %d of an int64 h >= 0 given by its limbs: the decimal digits, by
\* long division by 10.
RECURSIVE FormatInt64(_)
FormatInt64(h) ==
    LET c3 == h[1]
        c2 == (c3 % 10) * 65536 + h[2]
        c1 == (c2 % 10) * 65536 + h[3]
        c0 == (c1 % 10) * 65536 + h[4]
        quotient == <<c3 \div 10, c2 \div 10, c1 \div 10, c0 \div 10>>
    IN  IF quotient = <<0, 0, 0, 0>> THEN <<48 + (c0 % 10)>>
        ELSE Append(FormatInt64(quotient), 48 + (c0 % 10))

\* keyForHeight for result.Height = h, an int64 given by its limbs, and
\* result.Index = index: byte(h >> 24), byte(h >> 16), byte(h >> 8) and
\* byte(h) are the bytes of the two least significant limbs.
keyForHeight64(h, index) ==
    TxHeightKey \o tagKeySeparator
        \o <<h[3] \div 256, h[3] % 256, h[4] \div 256, h[4] % 256>>
        \o tagKeySeparator \o FormatInt64(h)
        \o tagKeySeparator \o FormatInt(index)
        \o eventSeqSeparator \o <<48>>

\* keyForHeight for the first tx of the block h1 and the second tx of the
\* block h2, and the keys that the iterator of matchRange visits for
\* lower <= tx.height <= upper in a store that holds both.
HeightKeyCall(h1, h2, lower, upper) ==
    LET key1 == keyForHeight64(h1, 0)
        key2 == keyForHeight64(h2, 1)
        db == [k \in {key1, key2} |->
                  IF k = key1 THEN HashValue(Hash(<<1>>)) ELSE HashValue(Hash(<<2>>))]
    IN  /\ last' = [op |-> "keyForHeight",
                    arg |-> [h1 |-> h1, h2 |-> h2, lower |-> lower, upper |-> upper],
                    ret |-> <<key1, key2>>,
                    visited |-> matchRangeKeys(db, HeightRangeOf(Num(lower), Num(upper), TRUE),
                                               startKey(<<TxHeightKey>>))]
        /\ UNCHANGED <<store, eventSeq, writes, hist, sr>>

\* The heights 1, 2, 47, 5001, 65536, 2^31, 2^32 - 1, 2^32, 2^32 + 1 and
\* 2^63 - 1, and the ranges 1..2, 2..5001 and 47..47.
NextHeightKeys ==
    \E h1 \in {<<0, 0, 0, 1>>, <<0, 0, 0, 2>>, <<0, 0, 0, 47>>, <<0, 0, 0, 5001>>,
                <<0, 0, 1, 0>>, <<0, 0, 32768, 0>>, <<0, 0, 65535, 65535>>,
                <<0, 1, 0, 0>>, <<0, 1, 0, 1>>, <<32767, 65535, 65535, 65535>>},
       h2 \in {<<0, 0, 0, 1>>, <<0, 0, 0, 2>>, <<0, 0, 0, 47>>, <<0, 0, 0, 5001>>,
                <<0, 0, 1, 0>>, <<0, 0, 32768, 0>>, <<0, 0, 65535, 65535>>,
                <<0, 1, 0, 0>>, <<0, 1, 0, 1>>, <<32767, 65535, 65535, 65535>>},
       range \in {<<1, 2>>, <<2, 5001>>, <<47, 47>>} :
        HeightKeyCall(h1, h2, range[1], range[2])

SpecHeightKeys == Init /\ [][NextHeightKeys]_vars

----------------------------------------------------------------------------
(* The properties.                                                         *)

\* The step is a call of Index.
IndexStep == last'.op = "Index" /\ writes' = writes + 1

\* The last call is a Search of a query of Q with a live token.
Searched(Q) == last.op = "Search" /\ ~last.ctxDone /\ last.arg \in Q

\* The results of the last Search, as a set.
ResultSet == {last.ret.results[i] : i \in 1..Len(last.ret.results)}

\* What Get returns while the store holds r under its hash.
Found(r) == [res |-> <<r>>, err |-> "nil"]

\* C1. Success preservation: when the last write to the hash H is a
\* successful Index(r1) with r1.code = 0, and Index(r2) is called with the
\* same hash and r2.code # 0, then Index(r2) returns success and Get(H)
\* still returns r1.
C1_SuccessPreservation ==
    [][\A H \in DOMAIN hist :
           (/\ IndexStep
            /\ Hash(last'.arg.Tx) = H
            /\ ~IsOK(last'.arg)
            /\ hist[H].op = "Index"
            /\ hist[H].err = "nil"
            /\ IsOK(hist[H].arg))
               => /\ last'.err = "nil"
                  /\ Get(store', H) = Found(hist[H].arg)]_vars

\* Index(r1) with code 0 and then Index(r2) with another code and another
\* height have been called on one hash.
C1_Witness ==
    /\ last.op = "Index"
    /\ ~IsOK(last.arg)
    /\ hist[Hash(last.arg.Tx)].prev = "Index"
    /\ Get(store, Hash(last.arg.Tx)).res # <<>>
    /\ IsOK(Get(store, Hash(last.arg.Tx)).res[1])
    /\ Get(store, Hash(last.arg.Tx)).res[1].Height # last.arg.Height

\* C2. Index/Get round trip: after Index(r) returns success, Get(hash(r.tx))
\* returns r, except when r.code # 0 and the store held a code-0 result for
\* the hash before the call: then Get returns that older result.
C2_IndexGetRoundTrip ==
    [][(IndexStep /\ last'.err = "nil") =>
           LET r == last'.arg
               old == Get(store, Hash(r.Tx))
           IN  IF ~IsOK(r) /\ old.res # <<>> /\ IsOK(old.res[1])
               THEN Get(store', Hash(r.Tx)) = old
               ELSE Get(store', Hash(r.Tx)) = Found(r)]_vars

\* Index(r) has replaced another result stored under its hash.
C2_Witness ==
    /\ last.op = "Index"
    /\ last.err = "nil"
    /\ ~last.skipped
    /\ hist[Hash(last.arg.Tx)].n = 2
    /\ Get(store, Hash(last.arg.Tx)) = Found(last.arg)

\* The event e has a non-empty type t and an indexed attribute with a
\* non-empty key k and the value v, for the condition c "t.k = v".
EventSatisfies(e, c) ==
    \E j \in 1..Len(e.Attributes) :
        /\ Len(e.Type) > 0
        /\ Len(e.Attributes[j].Key) > 0
        /\ e.Attributes[j].Index
        /\ c.CompositeKey = e.Type \o <<46>> \o e.Attributes[j].Key
        /\ c.Operand = Text(e.Attributes[j].Value)

\* Some event of r satisfies the condition c.
HasIndexedAttribute(r, c) ==
    \E i \in 1..Len(r.Result.Events) : EventSatisfies(r.Result.Events[i], c)

\* C3 as stated. Equality-search completeness: for every r for which the
\* last write to its hash is an Index(r) that returned success, and every
\* indexed attribute (t, k, v) of r, Search("t.k = v") with a live token
\* returns a list containing r.
C3_EqualityCompleteness ==
    Searched(EqualityQueries) =>
        \A H \in DOMAIN hist :
            (/\ hist[H].op = "Index"
             /\ hist[H].err = "nil"
             /\ HasIndexedAttribute(hist[H].arg, last.arg.conditions[1]))
                => <<hist[H].arg>> \in ResultSet

\* C3 amended. Equality-search completeness for the results written: the
\* same, for every r that the last write to its hash, an Index(r) that
\* returned success, did not leave out in favour of a stored code-0 result.
C3_EqualityCompletenessOfWritten ==
    Searched(EqualityQueries) =>
        \A H \in DOMAIN hist :
            (/\ hist[H].op = "Index"
             /\ hist[H].err = "nil"
             /\ ~hist[H].skipped
             /\ HasIndexedAttribute(hist[H].arg, last.arg.conditions[1]))
                => <<hist[H].arg>> \in ResultSet

\* Search("t.k = v") has returned an r written by Index, after a write to
\* another hash.
C3_Witness ==
    /\ Searched(EqualityQueries)
    /\ \E H \in DOMAIN hist :
           /\ hist[H].op = "Index"
           /\ ~hist[H].skipped
           /\ HasIndexedAttribute(hist[H].arg, last.arg.conditions[1])
           /\ <<hist[H].arg>> \in ResultSet
           /\ \E G \in DOMAIN hist : hist[G].at > hist[H].at

\* acc.owner = 'Ivan' AND acc.num = '2'
IvanAndTwo == <<OwnerIs(Ivan), NumIs(Two)>>

\* One event of r satisfies every condition of cs.
OneEventSatisfies(r, cs) ==
    \E i \in 1..Len(r.Result.Events) :
        \A n \in 1..Len(cs) : EventSatisfies(r.Result.Events[i], cs[n])

\* Every condition of cs is satisfied by some event of r.
EachSatisfied(r, cs) == \A n \in 1..Len(cs) : HasIndexedAttribute(r, cs[n])

\* C4. Match-events discrimination: with match.events = 1 at the head of the
\* query, every tx returned has one event that satisfies all the attribute
\* conditions; without match.events, every stored tx of which each condition
\* is satisfied by some event is returned.
C4_MatchEventsDiscrimination ==
    /\ Searched({Query(<<MatchEventsCond>> \o IvanAndTwo)}) =>
           \A x \in ResultSet : x # <<>> /\ OneEventSatisfies(x[1], IvanAndTwo)
    /\ Searched({Query(IvanAndTwo)}) =>
           \A H \in DOMAIN hist :
               EachSatisfied(Get(store, H).res[1], IvanAndTwo)
                   => Get(store, H).res \in ResultSet

\* C5. Inclusive height range: with every hash written once,
\* Search("tx.height >= 1 AND tx.height <= 2") returns exactly the txs
\* indexed at the heights 1 to 2, both included.
C5_InclusiveHeightRange ==
    (Searched({Query(HeightRange)}) /\ \A H \in DOMAIN hist : hist[H].n = 1) =>
        ResultSet = {Get(store, H).res :
                        H \in {G \in DOMAIN hist : /\ 1 <= hist[G].arg.Height
                                                   /\ hist[G].arg.Height <= 2}}

\* C6. Height equality: Search("tx.height = 1") returns every tx stored at
\* height 1, and Search("a.o = 'I' AND tx.height = 1") every tx stored at
\* height 1 with the indexed attribute a.o = I.
C6_HeightEquality ==
    /\ Searched({Query(<<HeightIs(1)>>)}) =>
           \A H \in DOMAIN hist :
               Get(store, H).res[1].Height = 1 => Get(store, H).res \in ResultSet
    /\ Searched({Query(<<OwnerIs(Ivan), HeightIs(1)>>)}) =>
           \A H \in DOMAIN hist :
               (/\ Get(store, H).res[1].Height = 1
                /\ HasIndexedAttribute(Get(store, H).res[1], OwnerIs(Ivan)))
                   => Get(store, H).res \in ResultSet

\* The queries of two conditions, neither on tx.hash, without and with
\* match.events.
TwoConditionQueries == PairQueries \cup (HeightQueries \ {Query(<<HeightIs(1)>>)})

\* results(c): what Search returns for the condition c alone.
Results(c) == SearchSet(store, Query(<<c>>))

\* C7. Predicate intersection, for two conditions other than tx.hash (which
\* Search answers alone): the txs that Search(C1 AND C2) returns are among
\* results(C1) intersected with results(C2), and without match.events they
\* are exactly that intersection.
C7_PredicateIntersection ==
    Searched(TwoConditionQueries) =>
        LET cs == SelectSeq(last.arg.conditions,
                            LAMBDA c : c.CompositeKey # MatchEventKey)
            both == Results(cs[1]) \cap Results(cs[2])
        IN  /\ ResultSet \subseteq both
            /\ Len(cs) = Len(last.arg.conditions) => ResultSet = both

\* The hex operands and the hashes they decode to.
HexHashes ==
    {<<HexOfTx1, Hash(<<1>>)>>, <<HexOfTx2, Hash(<<2>>)>>, <<<<>>, <<>>>>}

\* The conditions of the last Search on tx.hash.
HashConditions ==
    SelectSeq(last.arg.conditions, LAMBDA c : c.CompositeKey = TxHashKey)

\* What the hash fast path returns for the hash H: the list of Get(H) alone
\* when H is stored and the empty list otherwise, with no iterator opened.
FastPathOf(H) ==
    /\ last.ret.results = IF H \in DOMAIN store THEN <<Get(store, H).res>> ELSE <<>>
    /\ last.ret.iterators = 0

\* C8 as stated. Hash fast path: for a query with a condition tx.hash = H,
\* Search with a live token returns the list of Get(H) alone when H is
\* stored and the empty list otherwise, whatever the other conditions, and
\* opens no iterator.
C8_HashFastPath ==
    \A hh \in HexHashes :
        (/\ Searched(HashQueries)
         /\ \E i \in 1..Len(HashConditions) : HashConditions[i] = HashIs(hh[1]))
            => FastPathOf(hh[2])

\* C8 amended. Hash fast path: the same, for a query whose first condition
\* on tx.hash is tx.hash = H.
C8_HashFastPathOfFirst ==
    \A hh \in HexHashes :
        (Searched(HashQueries) /\ HashConditions[1] = HashIs(hh[1]))
            => FastPathOf(hh[2])

\* Search has returned the tx of tx.hash = H for a query whose match.events,
\* attribute and height conditions the tx does not satisfy.
C8_Witness ==
    /\ Searched({Query(<<MatchEventsCond, NumIs(One), HeightIs(2),
                         HashIs(HexOfTx1), Cond(TxHeightKey, "OpLess", Num(1))>>)})
    /\ Len(last.ret.results) = 1
    /\ last.ret.results[1][1].Height = 1
    /\ ~HasIndexedAttribute(last.ret.results[1][1], NumIs(One))

\* C10. A Search called with a cancelled token returns an empty list that is
\* not nil and no error, whatever the query and the store, without a Get and
\* without an iterator.
C10_CancelledOnEntry ==
    (last.op = "Search" /\ last.ctxDone) =>
        last.ret = [results |-> <<>>, isNil |-> FALSE, err |-> "nil",
                    gets |-> 0, iterators |-> 0]

\* Search has been called with a cancelled token, a tx.hash operand that is
\* no hex, and a store that holds results.
C10_Witness ==
    /\ last.op = "Search"
    /\ last.ctxDone
    /\ last.arg = Query(<<HashIs(NotHex)>>)
    /\ DOMAIN hist # {}

\* C9. Cancellation during a search: once a select of the running Search has
\* taken the case of the cancelled token, while it scans keys or fetches
\* results, no scanned key is added to tmpHashes and no further tx is
\* fetched.
C9_CancellationExitsEarly ==
    [][(sr.pc \in {"scan", "fetch"} /\ sr.sawDone /\ sr'.pc = sr.pc) =>
           /\ sr'.tmpHashes = sr.tmpHashes
           /\ sr'.gets = sr.gets]_vars

\* The step is a call of AddBatch.
AddBatchStep == last'.op = "AddBatch" /\ writes' # writes

\* C11. AddBatch is last-writer-wins: after AddBatch(ops), Get of the hash
\* of every result of the batch returns the last result of the batch with
\* that hash, whatever its code and whatever the store held for the hash.
C11_AddBatchLastWriterWins ==
    [][AddBatchStep =>
           \A i \in 1..Len(last'.arg) :
               (\A j \in (i + 1)..Len(last'.arg) :
                    Hash(last'.arg[j].Tx) # Hash(last'.arg[i].Tx))
                   => Get(store', Hash(last'.arg[i].Tx)) = Found(last'.arg[i])]_vars

\* AddBatch has put a failing result where the store held a code-0 result of
\* the same hash.
C11_Witness ==
    /\ last.op = "AddBatch"
    /\ \E i \in 1..Len(last.arg) :
           /\ ~IsOK(last.arg[i])
           /\ last.found[i] # <<>>
           /\ IsOK(last.found[i][1])
           /\ Get(store, Hash(last.arg[i].Tx)) = Found(last.arg[i])

\* The hashes of the persisted results: the keys that hold a TxResult.
Persisted == {k \in DOMAIN store : "pb" \in DOMAIN store[k]}

\* The by-height keys and the event-index keys: the other keys of the
\* store, with and without the prefix "tx.height/".
ByHeightKeys ==
    {k \in DOMAIN store \ Persisted : HasPrefix(k, TxHeightKey \o tagKeySeparator)}
EventKeys == (DOMAIN store \ Persisted) \ ByHeightKeys

\* C12. For every persisted TxResult there is one by-hash entry, and exactly
\* one by-height entry whose value is its hash.
C12_OneEntryPerResult ==
    \A H \in Persisted :
        /\ Get(store, H).res # <<>>
        /\ Hash(Get(store, H).res[1].Tx) = H
        /\ Cardinality({k \in ByHeightKeys : store[k] = HashValue(H)}) = 1

\* C13. The second-to-last field of every event-index key parses as a
\* decimal height, the height of the TxResult stored under the hash that the
\* key holds.
C13_EventKeyHeight ==
    \A k \in EventKeys :
        /\ extractHeightFromKey(k).ok
        /\ Get(store, store[k].bz).res # <<>>
        /\ extractHeightFromKey(k).v = Get(store, store[k].bz).res[1].Height

\* The results that the step writes: the argument of Index unless the call
\* is suppressed, and the results of the batch of AddBatch.
Written ==
    IF last'.op = "AddBatch" THEN {last'.arg[i] : i \in 1..Len(last'.arg)}
    ELSE IF last'.skipped \/ last'.err # "nil" THEN {}
    ELSE {last'.arg}

\* The step is a call of Index or AddBatch.
WriteStep == writes' # writes

\* The event-index keys of r for the sequences after seq up to seq2: one for
\* every attribute with index = true and a non-empty key of an event with a
\* non-empty type.
IndexableKeys(r, seq, seq2) ==
    UNION {{keyForEvent(e.Type \o <<46>> \o e.Attributes[j].Key,
                        e.Attributes[j].Value, r, n) :
               j \in {i \in 1..Len(e.Attributes) :
                         Len(e.Attributes[i].Key) > 0 /\ e.Attributes[i].Index},
               n \in (seq + 1)..seq2} :
           e \in {r.Result.Events[i] :
                     i \in {x \in 1..Len(r.Result.Events) :
                               Len(r.Result.Events[x].Type) > 0}}}

\* C14. Index and AddBatch add to the store, for the results they write,
\* the by-hash key, the by-height key and event-index keys of attributes with
\* index = true and a non-empty key in events with a non-empty type, and no
\* other key: a result with no such attribute adds its by-hash and its
\* by-height key alone.
C14_OnlyIndexedAttributes ==
    [][WriteStep =>
           /\ \A r \in Written :
                  {Hash(r.Tx), keyForHeight(r)} \subseteq DOMAIN store'
           /\ DOMAIN store' \ DOMAIN store \subseteq
                  UNION {{Hash(r.Tx), keyForHeight(r)}
                            \cup IndexableKeys(r, eventSeq, eventSeq') :
                         r \in Written}]_vars

\* Index has written to the empty store a result whose events have an empty
\* type, an empty key or index = false: the store has two keys.
C14_Witness ==
    /\ last.op = "Index"
    /\ ~last.skipped
    /\ last.arg.Result.Events = QuietEvents
    /\ writes = 1
    /\ DOMAIN store = {Hash(last.arg.Tx), keyForHeight(last.arg)}

\* The bounds of the range of the last matchRange as the height range
\* [lower, upper]: a missing bound is the other one -/+ 4999, and lower is
\* at least 1.
RangeLower ==
    LET qr == last.arg.qr
    IN  IF qr.LowerBound.kind = "Int"
        THEN qr.LowerBound.num + (IF qr.IncludeLowerBound THEN 0 ELSE 1)
        ELSE qr.UpperBound.num - (IF qr.IncludeUpperBound THEN 0 ELSE 1) - 4999
RangeUpper ==
    LET qr == last.arg.qr
    IN  IF qr.UpperBound.kind = "Int"
        THEN qr.UpperBound.num - (IF qr.IncludeUpperBound THEN 0 ELSE 1)
        ELSE qr.LowerBound.num + (IF qr.IncludeLowerBound THEN 0 ELSE 1) + 4999

\* The range of the last matchRange has a bound, and is empty or too wide.
RangeRejected ==
    LET lower == IF RangeLower < 1 THEN 1 ELSE RangeLower
    IN  /\ last.op = "matchRange"
        /\ last.arg.qr.LowerBound.kind = "Int" \/ last.arg.qr.UpperBound.kind = "Int"
        /\ lower > RangeUpper \/ RangeUpper - lower > 5000

\* C15. matchRange returns the filter set it was given, and opens no
\* iterator, when the range (a missing bound set to the other -/+ 4999,
\* lower at least 1) has lower > upper or upper - lower > 5000; and
\* Search("tx.height >= 1 AND tx.height <= 10000") returns the empty list.
C15_RejectedRangeFrame ==
    /\ RangeRejected =>
           last.ret = last.arg.filteredHashes /\ last.iterators = 0
    /\ Searched(WideQueries) =>
           last.ret.results = <<>> /\ last.ret.err = "nil" /\ ~last.ret.isNil

\* matchRange has returned a filter set of two hashes for 1..5002, after its
\* first run, on a store with one of them at a height of the range.
C15_Witness ==
    /\ RangeRejected
    /\ RangeUpper - RangeLower = 5001
    /\ ~last.arg.firstRun
    /\ DOMAIN last.ret = {Hash(<<1>>), Hash(<<2>>)}
    /\ DOMAIN hist = {Hash(<<1>>)}

\* r has an indexed attribute with the composite key of c and a value that
\* contains the operand of c.
HasContaining(r, c) ==
    \E i \in 1..Len(r.Result.Events) :
        LET e == r.Result.Events[i]
        IN  \E j \in 1..Len(e.Attributes) :
                /\ Len(e.Type) > 0
                /\ Len(e.Attributes[j].Key) > 0
                /\ e.Attributes[j].Index
                /\ c.CompositeKey = e.Type \o <<46>> \o e.Attributes[j].Key
                /\ StringsContains(e.Attributes[j].Value, c.Operand.text)

\* Every hash has been written once.
DistinctHashes == \A H \in DOMAIN hist : hist[H].n = 1

\* C16. Contains search: for txs with distinct hashes,
\* Search("t.k CONTAINS 's'") without match.events returns exactly the
\* indexed txs that have an indexed attribute (t, k) whose value contains s.
C16_ContainsSearch ==
    (Searched(ContainsQueries) /\ DistinctHashes) =>
        /\ last.ret.err = "nil"
        /\ ResultSet = {<<hist[H].arg>> :
                           H \in {G \in DOMAIN hist :
                                     HasContaining(hist[G].arg,
                                                   last.arg.conditions[1])}}

\* C17. Key codec round trip: for every composite tag k, value v without
\* "/", height, index and event sequence s,
\* extractValueFromKey(keyForEvent(k, v, r, s)) = v.
C17_KeyCodecRoundTrip ==
    (/\ last.op = "keyForEvent"
     /\ StringsCount(last.arg.value, tagKeySeparator) = 0)
        => last.value = last.arg.value

\* The hashes that the conditions of the last Search select when each is
\* evaluated by match or matchRange.
EvaluatedHashes ==
    LET fh == FilteredHashes(store, last.arg.conditions).filteredHashes
    IN  {fh[k] : k \in DOMAIN fh}

\* C18. The hash fast path is taken only for tx.hash with the operator Eq: a
\* query whose only tx.hash condition has another operator (CONTAINS,
\* EXISTS, a range operator) is not answered by a Get of the operand but is
\* evaluated like any other condition.
C18_HashFastPathOnlyForEq ==
    Searched(HashOperatorQueries) =>
        /\ last.ret.err = "nil"
        /\ last.ret.iterators > 0
        /\ ResultSet = {Get(store, h).res : h \in EvaluatedHashes}

\* The results that the step processes, in the order of the call: none when
\* Index is suppressed.
Processed ==
    IF last'.op = "AddBatch" THEN last'.arg
    ELSE IF last'.skipped \/ last'.err # "nil" THEN <<>>
    ELSE <<last'.arg>>

\* The event occurrences of the step: event i of the p-th result processed.
EventOccurrences ==
    UNION {{<<p, i>> : i \in 1..Len(Processed[p].Result.Events)} :
              p \in 1..Len(Processed)}

\* The event-index keys of the occurrence o with the sequence n.
OccurrenceKeys(o, n) ==
    LET r == Processed[o[1]]
        e == r.Result.Events[o[2]]
    IN  IF Len(e.Type) = 0 THEN {}
        ELSE {keyForEvent(e.Type \o <<46>> \o e.Attributes[j].Key,
                          e.Attributes[j].Value, r, n) :
                 j \in {i \in 1..Len(e.Attributes) :
                           Len(e.Attributes[i].Key) > 0 /\ e.Attributes[i].Index}}

\* The event-index keys that the step adds to the store.
NewEventKeys ==
    (DOMAIN store' \ DOMAIN store)
        \ UNION {{Hash(Processed[p].Tx), keyForHeight(Processed[p])} :
                    p \in 1..Len(Processed)}

\* C19. Event sequence assignment: eventSeq never decreases; a call of Index
\* or AddBatch that is not suppressed increases it by the number of events
\* of the results it processes, whatever their type and attributes; and the
\* event-index keys it writes are those of every event occurrence with one
\* sequence of its own, different from that of every other occurrence.
C19_EventSequence ==
    [][/\ eventSeq' >= eventSeq
       /\ (WriteStep /\ Processed # <<>>) =>
              /\ eventSeq' = eventSeq + Cardinality(EventOccurrences)
              /\ \E f \in [EventOccurrences -> (eventSeq + 1)..eventSeq'] :
                     /\ \A o1 \in EventOccurrences, o2 \in EventOccurrences :
                            o1 # o2 => f[o1] # f[o2]
                     /\ NewEventKeys =
                            UNION {OccurrenceKeys(o, f[o]) : o \in EventOccurrences}]_vars

\* AddBatch has processed a result whose two events have no type or no
\* indexed attribute and then a result with two events of indexed
\* attributes: the keys of the latter carry the sequences 3 and 4.
C19_Witness ==
    /\ last.op = "AddBatch"
    /\ Len(last.arg) = 2
    /\ last.arg[1].Result.Events = QuietEvents
    /\ last.arg[2].Result.Events = TwoEvents
    /\ eventSeq = 4
    /\ keyForEvent(KeyOwner, Ivan, last.arg[2], 3) \in DOMAIN store
    /\ keyForEvent(KeyOwner, John, last.arg[2], 4) \in DOMAIN store

\* C20. Frame of a suppressed write: Index(r) with r.code # 0, called while
\* the store holds a code-0 result for the hash of r.tx, returns success and
\* leaves the whole store and eventSeq unchanged.
C20_SuppressedWriteFrame ==
    [][(/\ WriteStep
        /\ last'.op = "Index"
        /\ ~IsOK(last'.arg)
        /\ Get(store, Hash(last'.arg.Tx)).res # <<>>
        /\ IsOK(Get(store, Hash(last'.arg.Tx)).res[1]))
           => /\ last'.err = "nil"
              /\ store' = store
              /\ eventSeq' = eventSeq]_vars

\* Index has been called with a failing result of two indexed events on a
\* store that holds a code-0 result of the same hash with two events and no
\* event-index key: the store has its two keys and eventSeq is 2.
C20_Witness ==
    /\ last.op = "Index"
    /\ writes = 2
    /\ ~IsOK(last.arg)
    /\ last.arg.Result.Events = TwoEvents
    /\ Get(store, Hash(last.arg.Tx)).res # <<>>
    /\ IsOK(Get(store, Hash(last.arg.Tx)).res[1])
    /\ Get(store, Hash(last.arg.Tx)).res[1].Result.Events = QuietEvents
    /\ Cardinality(DOMAIN store) = 2
    /\ eventSeq = 2

\* The height n of the model's integers as an int64 given by its limbs.
Limbs(n) == <<0, 0, n \div 65536, n % 65536>>

\* h1 < h2 and h1 <= h2 for two int64 >= 0 given by their limbs.
Less64(h1, h2) == BytesLess(h1, h2)
LessEq64(h1, h2) == h1 = h2 \/ BytesLess(h1, h2)

\* C21. Height-key ordering: for all int64 heights 1 <= h1 < h2 the
\* by-height key of a tx at h1 sorts strictly before that of a tx at h2 in
\* unsigned-byte order, and a bounded scan between BE4(lower) and BE4(upper)
\* visits no tx whose height lies outside [lower, upper].
C21_HeightKeyOrdering ==
    last.op = "keyForHeight" =>
        /\ Less64(last.arg.h1, last.arg.h2) =>
               BytesLess(last.ret[1], last.ret[2])
        /\ \A n \in 1..Len(last.visited) :
               \A i \in 1..2 :
                   last.visited[n] = last.ret[i] =>
                       LET h == IF i = 1 THEN last.arg.h1 ELSE last.arg.h2
                       IN  /\ LessEq64(Limbs(last.arg.lower), h)
                           /\ LessEq64(h, Limbs(last.arg.upper))

\* The last call is a Search with a live token for "t.k = v", t.k the tag
\* of an attribute.
SearchedEquality ==
    /\ last.op = "Search"
    /\ ~last.ctxDone
    /\ ~last.arg.err
    /\ Len(last.arg.conditions) = 1
    /\ last.arg.conditions[1].Op = "OpEqual"
    /\ last.arg.conditions[1].CompositeKey
           \notin {TxHashKey, TxHeightKey, MatchEventKey}

\* C22. Equality-search soundness: after any sequence of Index and AddBatch
\* calls, every TxResult that Search("t.k = v") returns without
\* match.events has an event of type t with an indexed attribute k whose
\* value is v.
C22_EqualitySoundness ==
    SearchedEquality =>
        \A n \in 1..Len(last.ret.results) :
            /\ last.ret.results[n] # <<>>
            /\ HasIndexedAttribute(last.ret.results[n][1], last.arg.conditions[1])

\* C23. Atomic visibility under concurrency: a Search that runs while
\* serialized Index and AddBatch calls commit their batches returns no null
\* entry and no error: every hash it has found through a by-height or an
\* event-index key has its by-hash row when the materializer fetches it;
\* and the list it returns holds no two results with the same hash.
C23_AtomicVisibility ==
    sr.pc \in {"fetch", "done"} =>
        /\ sr.err = "nil"
        /\ ~sr.isNil
        /\ \A n \in 1..Len(sr.results) : sr.results[n] # <<>>
        /\ \A m \in 1..Len(sr.results), n \in 1..Len(sr.results) :
               m # n => Hash(sr.results[m][1].Tx) # Hash(sr.results[n][1].Tx)

\* A Search has returned the one result that an Index wrote over another
\* result of the hash while the materializer ran.
C23_Witness ==
    /\ sr.pc = "done"
    /\ last.op = "Index"
    /\ ~last.skipped
    /\ "during" \in DOMAIN last
    /\ last.during = "fetch"
    /\ hist[Hash(last.arg.Tx)].n = 2
    /\ sr.results = <<<<last.arg>>>>

====
